---------------------------- MODULE Spec2Model ----------------------------
(***************************************************************************)
(* A model of the mini trading terminal's direct-swap core: the pool       *)
(* qualification check, the constant-product swap math, the swap           *)
(* instruction builder, the transaction assembler and the two entry points *)
(* that route a swap request either to the direct-swap builder or to the   *)
(* aggregator (Jupiter.getOrder); and of the trading store around them:    *)
(* token selection, balance refresh and the executeTrade pipeline of       *)
(* build, sign, send and confirm.                                          *)
(*                                                                         *)
(* The ledger is an external collaborator: every awaited read is one step  *)
(* whose outcome (network failure, account absent, account contents) is    *)
(* chosen by the environment at the time of the read.                      *)
(***************************************************************************)
EXTENDS Integers, Sequences, FiniteSets, TLC

VARIABLES
    pc,            \* position of the one request in flight
    req,           \* the request's parameters
    chk,           \* what checkRaydiumCPMMPool did in this request
    bpool,         \* pool state read by buildRaydiumSwapTransaction
    ipool,         \* pool state read by createSwapInstruction
    rsv,           \* vault balances read by getPoolReserves
    instructions,  \* instruction list of the transaction being assembled
    ix,            \* the swap instruction returned by createSwapInstruction
    calls,         \* which collaborators the request has called
    outcome,       \* what the entry point returned or raised
    ledgerReads,   \* the ledger reads of the request, in the order they resolved
    tx,            \* the transaction compiled by buildRaydiumSwapTransaction
    mpc,           \* swap math: "input" or "computed"
    margs,         \* swap math: the arguments drawn
    mout,          \* swap math: the results for amountIn and amountIn2
    cpc,           \* byte codecs: "input" or "computed"
    cin,           \* byte codecs: the values or the account data drawn
    cout,          \* byte codecs: the bytes written or the fields decoded
    store,         \* trading store: the fields of the zustand state
    balanceSource, \* trading store: which read the stored token balance came from
    refreshes,     \* trading store: the refreshBalance calls in flight
    trades,        \* trading store: the executeTrade calls, in flight or ended
    timers         \* trading store: pending setTimeout callbacks

vars == <<pc, req, chk, bpool, ipool, rsv, instructions, ix, calls, outcome,
          ledgerReads, tx, mpc, margs, mout, cpc, cin, cout,
          store, balanceSource, refreshes, trades, timers>>

pipeVars == <<pc, req, chk, bpool, ipool, rsv, instructions, ix, calls, outcome,
              ledgerReads, tx>>
mathVars == <<mpc, margs, mout>>
codecVars == <<cpc, cin, cout>>
storeVars == <<store, balanceSource, refreshes, trades, timers>>
pureVars == <<mathVars, codecVars, storeVars>>

----------------------------------------------------------------------------
(* Bounds of the model *)

MaxAmountUnits == 2
AmountUnit == 50
MaxReserveUnits == 2
ReserveUnit == 100
MaxMinOut == 1
MaxMathAmount == 12
MaxMathReserve == 11
MaxPayloadSmall == 3
MaxDataLen == 330
MaxKeyShift == 2
MaxRefreshes == 2
MaxTrades == 2
SmallBalance == 3

(* Program constants *)

FEE_NUMERATOR == 9975
FEE_DENOMINATOR == 10000
SLIPPAGE_NUMERATOR == 99
SLIPPAGE_DENOMINATOR == 100
U64_LEN == 8
DISCRIMINATOR_LEN == 8
PUBLIC_KEY_LENGTH == 32
LAMPORTS_PER_SOL == 1000000000

CPMM_PROGRAM_ID == "CPMMoo8L3F4NbTegBCKVNunggL7H1ZpdTHKxQB5qKP1C"
OTHER_PROGRAM_ID == "OtherProgram"
NATIVE_MINT == "SOL"
TOKEN_MINT == "TKN"
THIRD_MINT == "OTH"
TOKEN_PROGRAM_ID == "TokenkegQfeZyiNwAJbNbGKPFXCWuBvf9Ss623VQ5DA"
TOKEN_2022_PROGRAM_ID == "TokenzQdBNbLqP5VEhdkAS6EPFLC1PHnBqCXEpPxuEb"

----------------------------------------------------------------------------
(* Results of calls: a value returned or an error thrown *)

Returned(v) == [ok |-> TRUE, value |-> v, error |-> "none"]
Thrown(e) == [ok |-> FALSE, value |-> 0, error |-> e]

----------------------------------------------------------------------------
(* Addresses, requests and ledger reads *)

NoAddr == "undefined"
EmptyAddr == ""
BadAddr == "not-a-base58-key"
PoolAddr == "POOL"
PoolAddresses == {NoAddr, EmptyAddr, BadAddr, PoolAddr}
SIGNER == "signer"

\* JavaScript truthiness of an optional string.
Truthy(poolAddress) == poolAddress \notin {NoAddr, EmptyAddr}
\* new PublicKey(s) throws on a string that is no base58 key of 32 bytes.
Parsable(address) == address = PoolAddr

Amounts == {k * AmountUnit : k \in 0..MaxAmountUnits}
VaultAmounts == {k * ReserveUnit : k \in 0..MaxReserveUnits}

NoMin == [some |-> FALSE, value |-> 0]
SomeMin(v) == [some |-> TRUE, value |-> v]
MinAmounts == {NoMin} \cup {SomeMin(v) : v \in 0..MaxMinOut}

MintPairs == {<<NATIVE_MINT, TOKEN_MINT>>, <<TOKEN_MINT, NATIVE_MINT>>,
              <<THIRD_MINT, TOKEN_MINT>>}

\* The token program that owns a mint, and the pool's vault for a mint.
ProgramOf(mint) == IF mint = TOKEN_MINT THEN TOKEN_2022_PROGRAM_ID ELSE TOKEN_PROGRAM_ID
VaultOf(mint) ==
    CASE mint = NATIVE_MINT -> "vault-SOL"
      [] mint = TOKEN_MINT -> "vault-TKN"
      [] OTHER -> "vault-OTH"

\* The ten fields of a pool account, in the order of its layout.
NoPool == [ammConfig |-> "-", poolCreator |-> "-", token0Vault |-> "-",
           token1Vault |-> "-", lpMint |-> "-", token0Mint |-> "-", token1Mint |-> "-",
           token0Program |-> "-", token1Program |-> "-", observationKey |-> "-"]
PoolOf(m) ==
    [ammConfig |-> "ammConfig", poolCreator |-> "poolCreator",
     token0Vault |-> VaultOf(m[1]), token1Vault |-> VaultOf(m[2]), lpMint |-> "lpMint",
     token0Mint |-> m[1], token1Mint |-> m[2],
     token0Program |-> ProgramOf(m[1]), token1Program |-> ProgramOf(m[2]),
     observationKey |-> "observationKey"]

\* connection.getAccountInfo(poolId): rejects, resolves null, or resolves the account.
\* The data of an account is carried as the fields its layout holds.
NotRead == [status |-> "notread", owner |-> "-", data |-> NoPool]
PoolReads ==
    {[status |-> "fail", owner |-> "-", data |-> NoPool],
     [status |-> "absent", owner |-> "-", data |-> NoPool],
     [status |-> "ok", owner |-> OTHER_PROGRAM_ID, data |-> NoPool]}
    \cup {[status |-> "ok", owner |-> CPMM_PROGRAM_ID, data |-> PoolOf(m)] : m \in MintPairs}

\* connection.getAccountInfo(vault) followed by AccountLayout.decode(...).amount
VaultReads ==
    {[status |-> "fail", amount |-> 0], [status |-> "absent", amount |-> 0]}
    \cup {[status |-> "ok", amount |-> a] : a \in VaultAmounts}

\* connection.getAccountInfo(associated token account)
AcctReads == {"fail", "absent", "exists"}

\* Jupiter.getOrder: rejects, or resolves {error}, {transaction: null} or a transaction.
OrderReplies == {"throw", "error", "null", "tx"}

NoReq == [entry |-> "none", direction |-> "none", atomicAmount |-> 0,
          poolAddress |-> NoAddr, tokenInMint |-> "-", minAmountOut |-> NoMin]
NoChk == [ran |-> FALSE, read |-> NotRead, threw |-> FALSE, result |-> FALSE]
NoRsv == [read0 |-> FALSE, token0Amount |-> 0, read1 |-> FALSE, token1Amount |-> 0]
NoIx == [made |-> FALSE, amountIn |-> 0, minAmountOut |-> 0, isInputToken0 |-> FALSE,
         inputVault |-> "-", outputVault |-> "-", inputMint |-> "-", outputMint |-> "-",
         programId |-> "-", keys |-> <<>>, data |-> <<>>]
NoTx == [built |-> FALSE, payerKey |-> "-", instructions |-> <<>>]
NoOrder == [inputMint |-> "-", outputMint |-> "-", amount |-> 0, signer |-> "-"]
NoCalls == [check |-> FALSE, builder |-> FALSE, getOrder |-> FALSE, orderArgs |-> NoOrder]
Pending == [kind |-> "pending", via |-> "none", error |-> "none"]
Failure(e) == [kind |-> "error", via |-> "none", error |-> e]

\* The input mint of the request: tokenInMint of buildRaydiumSwapTransaction,
\* or the argument of a direct createSwapInstruction call.
InputMint(r) ==
    IF r.entry = "instr" THEN r.tokenInMint
    ELSE IF r.direction = "buy" THEN NATIVE_MINT ELSE TOKEN_MINT

OutputMintOfRequest(r) == IF r.direction = "buy" THEN TOKEN_MINT ELSE NATIVE_MINT

----------------------------------------------------------------------------
(* Swap math *)

\* The quotient k / (x + dx) of the derivation, returned in place of dy.
calculateSwapResult_NewReserve(amountIn, reserveIn, reserveOut) ==
    LET amountInWithFee == amountIn * FEE_NUMERATOR
        denominator == reserveIn * FEE_DENOMINATOR + amountInWithFee
        numerator == reserveOut * reserveIn * FEE_DENOMINATOR
    IN  IF denominator = 0
          THEN Thrown("Assertion failed")
          ELSE Returned(numerator \div denominator)

\* The fee-scaled input divided by 10000 before use, as in the comment's formula.
calculateSwapResult_ScaledFee(amountIn, reserveIn, reserveOut) ==
    LET amountInWithFee == (amountIn * FEE_NUMERATOR) \div FEE_DENOMINATOR
        denominator == reserveIn * FEE_DENOMINATOR + amountInWithFee
        numerator == reserveOut * amountInWithFee
    IN  IF denominator = 0
          THEN Thrown("Assertion failed")
          ELSE Returned(numerator \div denominator)

\* bn.js: BN.div asserts a non-zero divisor and otherwise truncates.
calculateSwapResult(amountIn, reserveIn, reserveOut) ==
    LET amountInWithFee == amountIn * FEE_NUMERATOR
        denominator == reserveIn * FEE_DENOMINATOR + amountInWithFee
        numerator == reserveOut * amountInWithFee
    IN  IF denominator = 0
          THEN Thrown("Assertion failed")
          ELSE Returned(numerator \div denominator)

NotComputed == Thrown("not computed")

MathInit ==
    /\ mpc = "input"
    /\ margs \in [amountIn : 0..MaxMathAmount, amountIn2 : 0..MaxMathAmount,
                  reserveIn : 0..MaxMathReserve, reserveOut : 0..MaxMathReserve]
    /\ mout = <<NotComputed, NotComputed>>

MathIdle ==
    /\ mpc = "input"
    /\ margs = [amountIn |-> 0, amountIn2 |-> 0, reserveIn |-> 0, reserveOut |-> 0]
    /\ mout = <<NotComputed, NotComputed>>

MathCompute ==
    /\ mpc = "input"
    /\ mpc' = "computed"
    /\ mout' = <<calculateSwapResult(margs.amountIn, margs.reserveIn, margs.reserveOut),
                 calculateSwapResult(margs.amountIn2, margs.reserveIn, margs.reserveOut)>>
    /\ UNCHANGED <<margs, pipeVars, codecVars, storeVars>>

----------------------------------------------------------------------------
(* Byte codecs, idle *)

NoCodecInput == [amountIn |-> <<0>>, minAmountOut |-> <<0>>, data |-> <<>>]

CodecIdle ==
    /\ cpc = "input"
    /\ cin = NoCodecInput
    /\ cout = NotComputed

----------------------------------------------------------------------------
(* Pool qualification check *)

CheckCatch_Rethrow(err) == Thrown(err)

\* catch (err) { console.warn(...); return false; }
CheckCatch(err) == Returned(FALSE)

\* Whether the check gets as far as connection.getAccountInfo(poolId).
CheckReadsLedger(poolAddress) == Truthy(poolAddress) /\ Parsable(poolAddress)

checkRaydiumCPMMPool_AnyOwner(poolAddress, read) ==
    IF ~Truthy(poolAddress) THEN Returned(FALSE)
    ELSE IF ~Parsable(poolAddress) THEN CheckCatch("Invalid public key input")
    ELSE IF read.status = "fail" THEN CheckCatch("failed to get info about account")
    ELSE IF read.status = "ok" THEN Returned(TRUE)
    ELSE Returned(FALSE)

\* The value the check settles with, given what the owner read (if any) resolved to.
checkRaydiumCPMMPool(poolAddress, read) ==
    IF ~Truthy(poolAddress) THEN Returned(FALSE)
    ELSE IF ~Parsable(poolAddress) THEN CheckCatch("Invalid public key input")
    ELSE IF read.status = "fail" THEN CheckCatch("failed to get info about account")
    ELSE IF read.status = "ok" /\ read.owner = CPMM_PROGRAM_ID THEN Returned(TRUE)
    ELSE Returned(FALSE)

----------------------------------------------------------------------------
(* Numbers and bytes *)

\* BN.toString(): the decimal numeral of a number, most significant digit first.
RECURSIVE toString(_)
toString(n) == IF n < 10 THEN <<n>> ELSE toString(n \div 10) \o <<n % 10>>

\* BigInt(string): the number a decimal numeral denotes, leading zeros dropped.
RECURSIVE BigInt(_)
BigInt(digits) ==
    IF Len(digits) > 1 /\ Head(digits) = 0 THEN BigInt(Tail(digits)) ELSE digits

IsZero(digits) == \A i \in 1..Len(digits) : digits[i] = 0

\* Quotient and remainder of a numeral by a divisor, digit by digit from position i.
RECURSIVE DivMod(_, _, _, _)
DivMod(digits, divisor, i, carry) ==
    IF i > Len(digits) THEN [quotient |-> <<>>, remainder |-> carry]
    ELSE LET cur == carry * 10 + digits[i]
             rest == DivMod(digits, divisor, i + 1, cur % divisor)
         IN  [quotient |-> <<cur \div divisor>> \o rest.quotient,
              remainder |-> rest.remainder]

\* The n low-order bytes of a number, lowest first, and the number left above them.
RECURSIVE LowBytes(_, _)
LowBytes(digits, n) ==
    IF n = 0 THEN [bytes |-> <<>>, rest |-> digits]
    ELSE LET dm == DivMod(digits, 256, 1, 0)
             more == LowBytes(dm.quotient, n - 1)
         IN  [bytes |-> <<dm.remainder>> \o more.bytes, rest |-> more.rest]

\* The first byte of the buffer holds the highest-order byte of the value.
writeBigUInt64LE_BigEndian(value) ==
    LET w == LowBytes(value, U64_LEN)
    IN  IF IsZero(w.rest)
          THEN Returned([i \in 1..U64_LEN |-> w.bytes[U64_LEN + 1 - i]])
          ELSE Thrown("ERR_OUT_OF_RANGE")

\* Buffer.alloc(8).writeBigUInt64LE(value): the eight bytes of the value, lowest
\* first; a value of 2^64 or more is a RangeError.
writeBigUInt64LE(value) ==
    LET w == LowBytes(value, U64_LEN)
    IN  IF IsZero(w.rest) THEN Returned(w.bytes) ELSE Thrown("ERR_OUT_OF_RANGE")

\* Buffer.from(hex, "hex"): one byte for each pair of hexadecimal digits.
BufferFromHex(hex) ==
    [i \in 1..(Len(hex) \div 2) |-> hex[2 * i - 1] * 16 + hex[2 * i]]

\* "8fbe5adac41e33de", each character as the value of its hexadecimal digit.
SWAP_DISCRIMINATOR_HEX == <<8, 15, 11, 14, 5, 10, 13, 10, 12, 4, 1, 14, 3, 3, 13, 14>>

----------------------------------------------------------------------------
(* Account codec *)

\* PublicKey.findProgramAddressSync([AUTH_SEED], CPMM_PROGRAM_ID)[0]
getAuthAddress == "authority"

\* getAssociatedTokenAddress(mint, owner, false, programId): the address derived
\* from the three keys, one address for each mint and token program of the model.
getAssociatedTokenAddress(mint, owner, programId) ==
    CASE mint = NATIVE_MINT /\ programId = TOKEN_PROGRAM_ID -> "ata(SOL, signer, Token)"
      [] mint = NATIVE_MINT /\ programId = TOKEN_2022_PROGRAM_ID ->
            "ata(SOL, signer, Token-2022)"
      [] mint = TOKEN_MINT /\ programId = TOKEN_PROGRAM_ID -> "ata(TKN, signer, Token)"
      [] mint = TOKEN_MINT /\ programId = TOKEN_2022_PROGRAM_ID ->
            "ata(TKN, signer, Token-2022)"
      [] OTHER -> "ata(other)"

\* data.subarray(start, end): the bytes from offset start up to, not including,
\* offset end, both clamped to the length of the data.
subarray(data, start, end) ==
    LET from == IF start > Len(data) THEN Len(data) ELSE start
        to == IF end > Len(data) THEN Len(data) ELSE end
    IN  SubSeq(data, from + 1, to)

\* new PublicKey(bytes): the bytes are read as one big-endian number, which must
\* fit 32 bytes; the key is that number, written here as toBuffer() writes it,
\* left-padded with zeros to 32 bytes.
PublicKey(bytes) ==
    IF Len(bytes) > PUBLIC_KEY_LENGTH THEN Thrown("Invalid public key input")
    ELSE Returned([i \in 1..PUBLIC_KEY_LENGTH |->
                      IF i <= PUBLIC_KEY_LENGTH - Len(bytes) THEN 0
                      ELSE bytes[i - (PUBLIC_KEY_LENGTH - Len(bytes))]])

\* The k-th 32-byte field, counted from 0 at the start of the data.
PoolFieldFrom(data, offset, k) ==
    PublicKey(subarray(data, offset + k * PUBLIC_KEY_LENGTH,
                       offset + (k + 1) * PUBLIC_KEY_LENGTH)).value

\* The ten fields read from the start of the data, the first 8 bytes not skipped.
decodePoolState_NoSkip(data) ==
    Returned([ammConfig |-> PoolFieldFrom(data, 0, 0),
              poolCreator |-> PoolFieldFrom(data, 0, 1),
              token0Vault |-> PoolFieldFrom(data, 0, 2),
              token1Vault |-> PoolFieldFrom(data, 0, 3),
              lpMint |-> PoolFieldFrom(data, 0, 4),
              token0Mint |-> PoolFieldFrom(data, 0, 5),
              token1Mint |-> PoolFieldFrom(data, 0, 6),
              token0Program |-> PoolFieldFrom(data, 0, 7),
              token1Program |-> PoolFieldFrom(data, 0, 8),
              observationKey |-> PoolFieldFrom(data, 0, 9)])

\* let offset = 8; ten times new PublicKey(data.subarray(offset, offset + 32));
\* offset += 32. No subarray is longer than 32 bytes, so no constructor throws.
decodePoolState(data) ==
    Returned([ammConfig |-> PoolFieldFrom(data, DISCRIMINATOR_LEN, 0),
              poolCreator |-> PoolFieldFrom(data, DISCRIMINATOR_LEN, 1),
              token0Vault |-> PoolFieldFrom(data, DISCRIMINATOR_LEN, 2),
              token1Vault |-> PoolFieldFrom(data, DISCRIMINATOR_LEN, 3),
              lpMint |-> PoolFieldFrom(data, DISCRIMINATOR_LEN, 4),
              token0Mint |-> PoolFieldFrom(data, DISCRIMINATOR_LEN, 5),
              token1Mint |-> PoolFieldFrom(data, DISCRIMINATOR_LEN, 6),
              token0Program |-> PoolFieldFrom(data, DISCRIMINATOR_LEN, 7),
              token1Program |-> PoolFieldFrom(data, DISCRIMINATOR_LEN, 8),
              observationKey |-> PoolFieldFrom(data, DISCRIMINATOR_LEN, 9)])

getPoolState_AnyOwner(read) ==
    IF read.status = "fail" THEN Thrown("failed to get info about account")
    ELSE IF read.status = "absent" THEN Thrown("Pool account not found")
    ELSE Returned(read.data)

getPoolState(read) ==
    IF read.status = "fail" THEN Thrown("failed to get info about account")
    ELSE IF read.status = "absent" THEN Thrown("Pool account not found")
    ELSE IF read.owner # CPMM_PROGRAM_ID THEN Thrown("Pool is not a CPMM pool")
    ELSE Returned(read.data)

----------------------------------------------------------------------------
(* Instruction builder *)

DefaultMinAmountOut_DivFirst(estimatedOut) ==
    (estimatedOut \div SLIPPAGE_DENOMINATOR) * SLIPPAGE_NUMERATOR

\* estimatedOut.mul(new BN(99)).div(new BN(100))
DefaultMinAmountOut(estimatedOut) ==
    (estimatedOut * SLIPPAGE_NUMERATOR) \div SLIPPAGE_DENOMINATOR

\* let finalMinAmountOut = minAmountOut; if (!finalMinAmountOut) { ... }
\* A BN object is truthy whatever its value, zero included.
FinalMinAmountOut(minAmountOut, amountIn, reserveIn, reserveOut) ==
    IF minAmountOut.some THEN Returned(minAmountOut.value)
    ELSE LET estimatedOut == calculateSwapResult(amountIn, reserveIn, reserveOut)
         IN  IF estimatedOut.ok THEN Returned(DefaultMinAmountOut(estimatedOut.value))
             ELSE estimatedOut

\* The token0 side taken as the input side whatever the input mint.
SelectSide_Token0Input(poolState, reserves, tokenInMint) ==
    [isInputToken0 |-> TRUE,
     inputVault |-> poolState.token0Vault, outputVault |-> poolState.token1Vault,
     reserveIn |-> reserves.token0Amount, reserveOut |-> reserves.token1Amount,
     inputTokenProgram |-> poolState.token0Program,
     outputTokenProgram |-> poolState.token1Program,
     outputMint |-> poolState.token1Mint]

\* The side of the pool the input mint is on, and what follows from it.
SelectSide(poolState, reserves, tokenInMint) ==
    LET isInputToken0 == poolState.token0Mint = tokenInMint
    IN  [isInputToken0 |-> isInputToken0,
         inputVault |-> IF isInputToken0 THEN poolState.token0Vault
                        ELSE poolState.token1Vault,
         outputVault |-> IF isInputToken0 THEN poolState.token1Vault
                         ELSE poolState.token0Vault,
         reserveIn |-> IF isInputToken0 THEN reserves.token0Amount
                       ELSE reserves.token1Amount,
         reserveOut |-> IF isInputToken0 THEN reserves.token1Amount
                        ELSE reserves.token0Amount,
         inputTokenProgram |-> IF isInputToken0 THEN poolState.token0Program
                               ELSE poolState.token1Program,
         outputTokenProgram |-> IF isInputToken0 THEN poolState.token1Program
                                ELSE poolState.token0Program,
         outputMint |-> IF isInputToken0 THEN poolState.token1Mint
                        ELSE poolState.token0Mint]

\* const data = Buffer.concat([discriminator, amountInBuf, minAmountOutBuf])
\* for an amount and a minimum given as decimal numerals.
SwapData(amountIn, minAmountOut) ==
    LET amountInBuf == writeBigUInt64LE(BigInt(amountIn))
        minAmountOutBuf == writeBigUInt64LE(BigInt(minAmountOut))
    IN  IF ~amountInBuf.ok THEN amountInBuf
        ELSE IF ~minAmountOutBuf.ok THEN minAmountOutBuf
        ELSE Returned(BufferFromHex(SWAP_DISCRIMINATOR_HEX)
                        \o amountInBuf.value \o minAmountOutBuf.value)

AccountMeta(pubkey, isSigner, isWritable) ==
    [pubkey |-> pubkey, isSigner |-> isSigner, isWritable |-> isWritable]

\* The two vaults listed before the two token accounts.
SwapAccountKeys_VaultsFirst(a) ==
    <<AccountMeta(a.userPublicKey, TRUE, TRUE),
      AccountMeta(a.authority, FALSE, FALSE),
      AccountMeta(a.ammConfig, FALSE, FALSE),
      AccountMeta(a.poolId, FALSE, TRUE),
      AccountMeta(a.inputVault, FALSE, TRUE),
      AccountMeta(a.outputVault, FALSE, TRUE),
      AccountMeta(a.inputTokenAccount, FALSE, TRUE),
      AccountMeta(a.outputTokenAccount, FALSE, TRUE),
      AccountMeta(a.inputTokenProgram, FALSE, FALSE),
      AccountMeta(a.outputTokenProgram, FALSE, FALSE),
      AccountMeta(a.tokenInMint, FALSE, FALSE),
      AccountMeta(a.outputMint, FALSE, FALSE),
      AccountMeta(a.observationKey, FALSE, TRUE)>>

\* The observation account listed read-only.
SwapAccountKeys_ObservationReadOnly(a) ==
    <<AccountMeta(a.userPublicKey, TRUE, TRUE),
      AccountMeta(a.authority, FALSE, FALSE),
      AccountMeta(a.ammConfig, FALSE, FALSE),
      AccountMeta(a.poolId, FALSE, TRUE),
      AccountMeta(a.inputTokenAccount, FALSE, TRUE),
      AccountMeta(a.outputTokenAccount, FALSE, TRUE),
      AccountMeta(a.inputVault, FALSE, TRUE),
      AccountMeta(a.outputVault, FALSE, TRUE),
      AccountMeta(a.inputTokenProgram, FALSE, FALSE),
      AccountMeta(a.outputTokenProgram, FALSE, FALSE),
      AccountMeta(a.tokenInMint, FALSE, FALSE),
      AccountMeta(a.outputMint, FALSE, FALSE),
      AccountMeta(a.observationKey, FALSE, FALSE)>>

\* const keys: AccountMeta[] = [ #1 .. #13 ]
SwapAccountKeys(a) ==
    <<AccountMeta(a.userPublicKey, TRUE, TRUE),
      AccountMeta(a.authority, FALSE, FALSE),
      AccountMeta(a.ammConfig, FALSE, FALSE),
      AccountMeta(a.poolId, FALSE, TRUE),
      AccountMeta(a.inputTokenAccount, FALSE, TRUE),
      AccountMeta(a.outputTokenAccount, FALSE, TRUE),
      AccountMeta(a.inputVault, FALSE, TRUE),
      AccountMeta(a.outputVault, FALSE, TRUE),
      AccountMeta(a.inputTokenProgram, FALSE, FALSE),
      AccountMeta(a.outputTokenProgram, FALSE, FALSE),
      AccountMeta(a.tokenInMint, FALSE, FALSE),
      AccountMeta(a.outputMint, FALSE, FALSE),
      AccountMeta(a.observationKey, FALSE, TRUE)>>

\* The synchronous tail of createSwapInstruction, after both vault reads; args
\* holds the arguments of the call.
SwapInstructionOf(args, poolState, reserves) ==
    LET poolId == args.poolId
        userPublicKey == args.userPublicKey
        inputTokenAccount == args.inputTokenAccount
        outputTokenAccount == args.outputTokenAccount
        tokenInMint == args.tokenInMint
        amountIn == args.amountIn
        minAmountOut == args.minAmountOut
        side == SelectSide(poolState, reserves, tokenInMint)
        finalMinAmountOut ==
            FinalMinAmountOut(minAmountOut, amountIn, side.reserveIn, side.reserveOut)
        data == SwapData(toString(amountIn), toString(finalMinAmountOut.value))
        keys == SwapAccountKeys(
                    [userPublicKey |-> userPublicKey, authority |-> getAuthAddress,
                     ammConfig |-> poolState.ammConfig, poolId |-> poolId,
                     inputTokenAccount |-> inputTokenAccount,
                     outputTokenAccount |-> outputTokenAccount,
                     inputVault |-> side.inputVault, outputVault |-> side.outputVault,
                     inputTokenProgram |-> side.inputTokenProgram,
                     outputTokenProgram |-> side.outputTokenProgram,
                     tokenInMint |-> tokenInMint, outputMint |-> side.outputMint,
                     observationKey |-> poolState.observationKey])
    IN  IF ~finalMinAmountOut.ok THEN finalMinAmountOut
        ELSE IF ~data.ok THEN data
        ELSE Returned([made |-> TRUE, amountIn |-> amountIn,
                       minAmountOut |-> finalMinAmountOut.value,
                       isInputToken0 |-> side.isInputToken0,
                       inputVault |-> side.inputVault, outputVault |-> side.outputVault,
                       inputMint |-> tokenInMint, outputMint |-> side.outputMint,
                       programId |-> CPMM_PROGRAM_ID, keys |-> keys, data |-> data.value])

----------------------------------------------------------------------------
(* Entry points: routing between the direct-swap builder and the aggregator *)

Instr(op, account, lamports) == [op |-> op, account |-> account, lamports |-> lamports]

\* One resolved ledger read: the function that awaited it, the address read,
\* how it resolved and, for an account that exists, its owner where it was drawn.
ReadEntry(fn, address, status, owner) ==
    [fn |-> fn, address |-> address, status |-> status, owner |-> owner]

\* The token accounts handed to createSwapInstruction: the associated token
\* accounts the assembler derives with the token programs of its pool state,
\* or the two accounts a direct caller passes.
TokenAccounts(r, poolState) ==
    IF r.entry = "instr"
      THEN [input |-> "callerInputTokenAccount", output |-> "callerOutputTokenAccount"]
      ELSE LET tokenInMint == IF r.direction = "buy" THEN NATIVE_MINT ELSE TOKEN_MINT
               tokenOutMint == IF r.direction = "buy" THEN TOKEN_MINT ELSE NATIVE_MINT
               isInputToken0 == poolState.token0Mint = tokenInMint
               inputTokenProgram == IF isInputToken0 THEN poolState.token0Program
                                    ELSE poolState.token1Program
               outputTokenProgram == IF isInputToken0 THEN poolState.token1Program
                                     ELSE poolState.token0Program
           IN  [input |-> getAssociatedTokenAddress(tokenInMint, SIGNER,
                                                    inputTokenProgram),
                output |-> getAssociatedTokenAddress(tokenOutMint, SIGNER,
                                                     outputTokenProgram)]

OrderArgs(r) ==
    [inputMint |-> IF r.direction = "buy" THEN NATIVE_MINT ELSE TOKEN_MINT,
     outputMint |-> IF r.direction = "buy" THEN TOKEN_MINT ELSE NATIVE_MINT,
     amount |-> r.atomicAmount, signer |-> SIGNER]

\* Jupiter.getOrder({inputMint, outputMint, amount, signer}) is called and awaited.
CallGetOrder(r, c) ==
    [pc |-> "agg", calls |-> [c EXCEPT !.getOrder = TRUE, !.orderArgs = OrderArgs(r)],
     outcome |-> Pending]

BuildFailed_Fallback(e, r, c) == CallGetOrder(r, c)

\* catch (err) { console.error(...); throw err; }
BuildFailed(e, r, c) == [pc |-> "done", calls |-> c, outcome |-> Failure(e)]

\* The error dropped and the build carried on to its blockhash fetch.
Raise_Continue(e, r, c) == [pc |-> "b_blockhash", calls |-> c, outcome |-> Pending]

\* An error raised inside the build: caught and rethrown by the entry point, or
\* raised as it is from a direct createSwapInstruction call.
Raise(e, r, c) ==
    IF r.entry = "instr" THEN [pc |-> "done", calls |-> c, outcome |-> Failure(e)]
    ELSE BuildFailed(e, r, c)

\* buildRaydiumSwapTransaction up to its first await: the two PublicKey constructors.
EnterBuilder(r, c) ==
    LET c1 == [c EXCEPT !.builder = TRUE]
    IN  IF ~Parsable(r.poolAddress) THEN BuildFailed("Invalid public key input", r, c1)
        ELSE [pc |-> "b_pool", calls |-> c1, outcome |-> Pending]

\* if (useRaydiumCPMM && raydiumPoolAddress) { build } else getOrder
HookRoute(r, c, res) ==
    IF ~res.ok THEN [pc |-> "done", calls |-> c, outcome |-> Failure(res.error)]
    ELSE IF res.value /\ Truthy(r.poolAddress) THEN EnterBuilder(r, c)
    ELSE CallGetOrder(r, c)

\* if (raydiumPoolAddress) { build } else getOrder
LibRoute(r, c) ==
    IF Truthy(r.poolAddress) THEN EnterBuilder(r, c) ELSE CallGetOrder(r, c)

ChkOf(read, res) ==
    [ran |-> TRUE, read |-> read, threw |-> ~res.ok,
     result |-> IF res.ok THEN res.value ELSE FALSE]

HookStart(direction, atomicAmount, poolAddress) ==
    /\ pc = "idle"
    /\ LET r == [NoReq EXCEPT !.entry = "hook", !.direction = direction,
                              !.atomicAmount = atomicAmount, !.poolAddress = poolAddress]
           c == [NoCalls EXCEPT !.check = TRUE]
       IN  /\ req' = r
           /\ IF CheckReadsLedger(poolAddress)
                THEN /\ pc' = "check"
                     /\ calls' = c
                     /\ outcome' = Pending
                     /\ chk' = NoChk
                ELSE LET res == checkRaydiumCPMMPool(poolAddress, NotRead)
                         t == HookRoute(r, c, res)
                     IN  /\ pc' = t.pc
                         /\ calls' = t.calls
                         /\ outcome' = t.outcome
                         /\ chk' = ChkOf(NotRead, res)
    /\ UNCHANGED <<bpool, ipool, rsv, instructions, ix, ledgerReads, tx, pureVars>>

HookCheckDone(read) ==
    /\ pc = "check"
    /\ LET res == checkRaydiumCPMMPool(req.poolAddress, read)
           t == HookRoute(req, calls, res)
       IN  /\ pc' = t.pc
           /\ calls' = t.calls
           /\ outcome' = t.outcome
           /\ chk' = ChkOf(read, res)
    /\ ledgerReads' = Append(ledgerReads,
                             ReadEntry("checkRaydiumCPMMPool", req.poolAddress,
                                       read.status, read.owner))
    /\ UNCHANGED <<req, bpool, ipool, rsv, instructions, ix, tx, pureVars>>

LibStart(direction, atomicAmount, poolAddress) ==
    /\ pc = "idle"
    /\ LET r == [NoReq EXCEPT !.entry = "lib", !.direction = direction,
                              !.atomicAmount = atomicAmount, !.poolAddress = poolAddress]
           t == LibRoute(r, NoCalls)
       IN  /\ req' = r
           /\ pc' = t.pc
           /\ calls' = t.calls
           /\ outcome' = t.outcome
    /\ UNCHANGED <<chk, bpool, ipool, rsv, instructions, ix, ledgerReads, tx, pureVars>>

InstrStart(tokenInMint, amountIn, minAmountOut) ==
    /\ pc = "idle"
    /\ req' = [NoReq EXCEPT !.entry = "instr", !.atomicAmount = amountIn,
                            !.poolAddress = PoolAddr, !.tokenInMint = tokenInMint,
                            !.minAmountOut = minAmountOut]
    /\ pc' = "i_pool"
    /\ outcome' = Pending
    /\ UNCHANGED <<chk, bpool, ipool, rsv, instructions, ix, calls, ledgerReads, tx,
                   pureVars>>

AggDone(reply) ==
    /\ pc = "agg"
    /\ pc' = "done"
    /\ outcome' = CASE reply = "throw" -> Failure("getOrder rejected")
                    [] reply = "error" -> Failure("data.error")
                    [] reply = "null" -> Failure("Invalid data from Jupiter.getOrder")
                    [] OTHER -> [kind |-> "tx", via |-> "aggregator", error |-> "none"]
    /\ UNCHANGED <<req, chk, bpool, ipool, rsv, instructions, ix, calls, ledgerReads, tx,
                   pureVars>>

Reset ==
    /\ pc = "done"
    /\ pc' = "idle"
    /\ req' = NoReq
    /\ chk' = NoChk
    /\ bpool' = NoPool
    /\ ipool' = NoPool
    /\ rsv' = NoRsv
    /\ instructions' = <<>>
    /\ ix' = NoIx
    /\ calls' = NoCalls
    /\ outcome' = Pending
    /\ ledgerReads' = <<>>
    /\ tx' = NoTx
    /\ UNCHANGED pureVars

----------------------------------------------------------------------------
(* Transaction assembler: one action per awaited read *)

\* const poolState = await getPoolState(connection, poolId), then the mints,
\* token programs and associated token accounts of both legs.
BuilderPoolRead(read) ==
    /\ pc = "b_pool"
    /\ LET ps == getPoolState(read)
       IN  IF ps.ok
             THEN /\ bpool' = ps.value
                  /\ pc' = IF InputMint(req) = NATIVE_MINT THEN "b_inAcct" ELSE "b_outAcct"
                  /\ UNCHANGED <<calls, outcome>>
             ELSE LET t == Raise(ps.error, req, calls)
                  IN  /\ pc' = t.pc
                      /\ calls' = t.calls
                      /\ outcome' = t.outcome
                      /\ UNCHANGED bpool
    /\ ledgerReads' = Append(ledgerReads,
                             ReadEntry("buildRaydiumSwapTransaction", req.poolAddress,
                                       read.status, read.owner))
    /\ UNCHANGED <<req, chk, ipool, rsv, instructions, ix, tx, pureVars>>

\* The sync placed before the transfer it is meant to reconcile.
WrapInstructions_SyncFirst(read, r) ==
    (IF read = "absent"
       THEN <<Instr("createAssociatedTokenAccount", "inputTokenAccount", 0)>>
       ELSE <<>>)
    \o <<Instr("syncNative", "inputTokenAccount", 0),
         Instr("transfer", "inputTokenAccount", r.atomicAmount)>>

\* The input account created whatever the existence read reported.
WrapInstructions_AlwaysCreate(read, r) ==
    <<Instr("createAssociatedTokenAccount", "inputTokenAccount", 0),
      Instr("transfer", "inputTokenAccount", r.atomicAmount),
      Instr("syncNative", "inputTokenAccount", 0)>>

\* The instructions that fund the wrapped-SOL input account.
WrapInstructions(read, r) ==
    (IF read = "absent"
       THEN <<Instr("createAssociatedTokenAccount", "inputTokenAccount", 0)>>
       ELSE <<>>)
    \o <<Instr("transfer", "inputTokenAccount", r.atomicAmount),
         Instr("syncNative", "inputTokenAccount", 0)>>

\* 1. Handle Input wSOL
BuilderInAcctRead(read) ==
    /\ pc = "b_inAcct"
    /\ IF read # "fail"
         THEN /\ instructions' = WrapInstructions(read, req)
              /\ pc' = "b_outAcct"
              /\ UNCHANGED <<calls, outcome>>
         ELSE LET t == Raise("failed to get info about account", req, calls)
              IN  /\ pc' = t.pc
                  /\ calls' = t.calls
                  /\ outcome' = t.outcome
                  /\ UNCHANGED instructions
    /\ ledgerReads' = Append(ledgerReads,
                             ReadEntry("buildRaydiumSwapTransaction",
                                       TokenAccounts(req, bpool).input,
                                       IF read = "exists" THEN "ok" ELSE read, "-"))
    /\ UNCHANGED <<req, chk, bpool, ipool, rsv, ix, tx, pureVars>>

\* 2. Handle Output ATA, then the call of createSwapInstruction up to its first await
BuilderOutAcctRead(read) ==
    /\ pc = "b_outAcct"
    /\ IF read # "fail"
         THEN /\ instructions' =
                    instructions \o
                    (IF read = "absent"
                       THEN <<Instr("createAssociatedTokenAccount", "outputTokenAccount", 0)>>
                       ELSE <<>>)
              /\ pc' = "i_pool"
              /\ UNCHANGED <<calls, outcome>>
         ELSE LET t == Raise("failed to get info about account", req, calls)
              IN  /\ pc' = t.pc
                  /\ calls' = t.calls
                  /\ outcome' = t.outcome
                  /\ UNCHANGED instructions
    /\ ledgerReads' = Append(ledgerReads,
                             ReadEntry("buildRaydiumSwapTransaction",
                                       TokenAccounts(req, bpool).output,
                                       IF read = "exists" THEN "ok" ELSE read, "-"))
    /\ UNCHANGED <<req, chk, bpool, ipool, rsv, ix, tx, pureVars>>

\* createSwapInstruction: 1. Fetch Pool State
InstrPoolRead(read) ==
    /\ pc = "i_pool"
    /\ LET ps == getPoolState(read)
       IN  IF ps.ok
             THEN /\ ipool' = ps.value
                  /\ pc' = "i_vault0"
                  /\ UNCHANGED <<calls, outcome>>
             ELSE LET t == Raise(ps.error, req, calls)
                  IN  /\ pc' = t.pc
                      /\ calls' = t.calls
                      /\ outcome' = t.outcome
                      /\ UNCHANGED ipool
    /\ ledgerReads' = Append(ledgerReads,
                             ReadEntry("createSwapInstruction", req.poolAddress,
                                       read.status, read.owner))
    /\ UNCHANGED <<req, chk, bpool, rsv, instructions, ix, tx, pureVars>>

\* An absent vault counted as an empty one.
VaultAmount_AbsentIsEmpty(read, notFound) ==
    IF read.status = "fail" THEN Thrown("failed to get info about account")
    ELSE Returned(read.amount)

\* if (!accountInfo) throw new Error("TokenN Vault ... not found ...");
\* new BN(AccountLayout.decode(accountInfo.data).amount.toString())
VaultAmount(read, notFound) ==
    IF read.status = "fail" THEN Thrown("failed to get info about account")
    ELSE IF read.status = "absent" THEN Thrown(notFound)
    ELSE Returned(read.amount)

\* getPoolReserves: the read of poolState.token0Vault
InstrVault0Read(read) ==
    /\ pc = "i_vault0"
    /\ LET amount == VaultAmount(read, "Token0 Vault not found")
       IN  IF amount.ok
             THEN /\ rsv' = [rsv EXCEPT !.read0 = TRUE, !.token0Amount = amount.value]
                  /\ pc' = "i_vault1"
                  /\ UNCHANGED <<calls, outcome>>
             ELSE LET t == Raise(amount.error, req, calls)
                  IN  /\ pc' = t.pc
                      /\ calls' = t.calls
                      /\ outcome' = t.outcome
                      /\ UNCHANGED rsv
    /\ ledgerReads' = Append(ledgerReads,
                             ReadEntry("getPoolReserves", ipool.token0Vault,
                                       read.status, "-"))
    /\ UNCHANGED <<req, chk, bpool, ipool, instructions, ix, tx, pureVars>>

\* createCloseAccountInstruction(account, destination, authority)
createCloseAccountInstruction(account, destination, authority) ==
    [op |-> "closeAccount", account |-> account, lamports |-> 0,
     destination |-> destination, authority |-> authority]

\* Both token accounts closed whichever leg is native.
CloseInstructions_Both(r) ==
    <<createCloseAccountInstruction("outputTokenAccount", SIGNER, SIGNER),
      createCloseAccountInstruction("inputTokenAccount", SIGNER, SIGNER)>>

\* 4. Close wSOL accounts to reclaim rent
CloseInstructions(r) ==
    (IF OutputMintOfRequest(r) = NATIVE_MINT
       THEN <<createCloseAccountInstruction("outputTokenAccount", SIGNER, SIGNER)>>
       ELSE <<>>)
    \o (IF InputMint(r) = NATIVE_MINT
          THEN <<createCloseAccountInstruction("inputTokenAccount", SIGNER, SIGNER)>>
          ELSE <<>>)

\* The swap instruction placed after the closing instructions.
SwapAndCloseInstructions_CloseFirst(r) ==
    CloseInstructions(r) \o <<Instr("swap", "pool", r.atomicAmount)>>

\* 3. Swap: instructions.push(swapIx), then 4.
SwapAndCloseInstructions(r) ==
    <<Instr("swap", "pool", r.atomicAmount)>> \o CloseInstructions(r)

\* getPoolReserves: the read of poolState.token1Vault; then the rest of
\* createSwapInstruction and, in a build, the swap and close instructions.
InstrVault1Read(read) ==
    /\ pc = "i_vault1"
    /\ LET amount == VaultAmount(read, "Token1 Vault not found")
           reserves == [rsv EXCEPT !.read1 = TRUE, !.token1Amount = amount.value]
           accounts == TokenAccounts(req, bpool)
           si == IF amount.ok
                   THEN SwapInstructionOf(
                            [poolId |-> req.poolAddress, userPublicKey |-> SIGNER,
                             inputTokenAccount |-> accounts.input,
                             outputTokenAccount |-> accounts.output,
                             tokenInMint |-> InputMint(req),
                             amountIn |-> req.atomicAmount,
                             minAmountOut |-> req.minAmountOut],
                            ipool, reserves)
                   ELSE amount
       IN  IF si.ok
             THEN /\ rsv' = reserves
                  /\ ix' = si.value
                  /\ UNCHANGED calls
                  /\ IF req.entry = "instr"
                       THEN /\ pc' = "done"
                            /\ outcome' = [kind |-> "instruction", via |-> "direct",
                                           error |-> "none"]
                            /\ UNCHANGED instructions
                       ELSE /\ pc' = "b_blockhash"
                            /\ instructions' =
                                  instructions \o SwapAndCloseInstructions(req)
                            /\ UNCHANGED outcome
             ELSE LET t == Raise(si.error, req, calls)
                  IN  /\ pc' = t.pc
                      /\ calls' = t.calls
                      /\ outcome' = t.outcome
                      /\ rsv' = IF amount.ok THEN reserves ELSE rsv
                      /\ UNCHANGED <<ix, instructions>>
    /\ ledgerReads' = Append(ledgerReads,
                             ReadEntry("getPoolReserves", ipool.token1Vault,
                                       read.status, "-"))
    /\ UNCHANGED <<req, chk, bpool, ipool, tx, pureVars>>

\* const latestBlockhash = await connection.getLatestBlockhash(); compile; return
BuilderBlockhash(fetched) ==
    /\ pc = "b_blockhash"
    /\ IF fetched
         THEN /\ pc' = "done"
              /\ outcome' = [kind |-> "tx", via |-> "direct", error |-> "none"]
              /\ tx' = [built |-> TRUE, payerKey |-> SIGNER,
                        instructions |-> instructions]
              /\ UNCHANGED calls
         ELSE LET t == Raise("failed to get recent blockhash", req, calls)
              IN  /\ pc' = t.pc
                  /\ calls' = t.calls
                  /\ outcome' = t.outcome
                  /\ UNCHANGED tx
    /\ ledgerReads' = Append(ledgerReads,
                             ReadEntry("buildRaydiumSwapTransaction", "latestBlockhash",
                                       IF fetched THEN "ok" ELSE "fail", "-"))
    /\ UNCHANGED <<req, chk, bpool, ipool, rsv, instructions, ix, pureVars>>

----------------------------------------------------------------------------
(* Trading store: token selection, balance refresh and the trade pipeline *)

NoToken == "null"
Tokens == {"TKN-A", "TKN-B"}

\* The pool address a page passes along with a token: the first token trades
\* on a pool, the second has none.
PoolAddressOf(token) == IF token = "TKN-A" THEN PoolAddr ELSE NoAddr

\* The numeral of a token account's amount, as the RPC reports it in a string.
BalanceAmounts == {0, SmallBalance}

\* What connection.getParsedTokenAccountsByOwner resolves: no account, or an
\* account holding an amount.
TokenAccountReplies ==
    {[accounts |-> 0, amount |-> <<0>>]}
    \cup {[accounts |-> 1, amount |-> toString(a)] : a \in BalanceAmounts}

\* buyPresets [0.0001, 0.001, 0.01, 0.1] in ten-thousandths of a SOL, and
\* sellPresets [25, 50, 75, 100] in percent; the values the panel's buttons pass.
buyPresets == {1, 10, 100, 1000}
sellPresets == {25, 50, 75, 100}
TradeValues(direction) == IF direction = "buy" THEN buyPresets ELSE sellPresets

\* new Decimal(string): the number a decimal numeral denotes.
RECURSIVE Decimal(_)
Decimal(digits) ==
    IF digits = <<>> THEN 0
    ELSE Decimal(SubSeq(digits, 1, Len(digits) - 1)) * 10 + digits[Len(digits)]

\* createSwapTransaction: Calculate atomic amount. A buy multiplies the value,
\* counted here in ten-thousandths, by LAMPORTS_PER_SOL; a sell takes the floor
\* of the percentage of the balance.
AtomicAmountOf(direction, value, tokenAtomicBalance) ==
    IF direction = "buy" THEN value * (LAMPORTS_PER_SOL \div 10000)
    ELSE (Decimal(tokenAtomicBalance) * value) \div 100

NoSwapRequest == [direction |-> "none", atomicAmount |-> 0, route |-> "none"]

\* createSwapTransaction up to its first await: the amount, then the route.
SwapRequestOf(direction, value, st) ==
    [direction |-> direction,
     atomicAmount |-> AtomicAmountOf(direction, value, st.tokenAtomicBalance),
     route |-> IF Truthy(st.raydiumPoolAddress) THEN "builder" ELSE "aggregator"]

InitialStore ==
    [token |-> NoToken, raydiumPoolAddress |-> NoAddr, tokenAtomicBalance |-> <<0>>,
     isBalanceLoading |-> FALSE, isTrading |-> FALSE]

NoSource == [token |-> NoToken, newest |-> FALSE]
IdleRefresh == [pc |-> "idle", token |-> NoToken, newest |-> FALSE]

\* One executeTrade call: its position, the request it has handed on, the steps
\* that have settled, how it ended, and whether a later call was turned away
\* while it was in flight.
IdleTrade ==
    [pc |-> "idle", request |-> NoSwapRequest, steps |-> <<>>, result |-> "none",
     turnedAway |-> FALSE]

StoreIdle ==
    /\ store = InitialStore
    /\ balanceSource = NoSource
    /\ refreshes = [s \in 1..MaxRefreshes |-> IdleRefresh]
    /\ trades = [s \in 1..MaxTrades |-> IdleTrade]
    /\ timers = 0

ActiveRefreshes == {s \in 1..MaxRefreshes : refreshes[s].pc # "idle"}
ActiveTrades == {s \in 1..MaxTrades : trades[s].pc \notin {"idle", "done"}}

\* The calls and callbacks that are or will be refreshing or trading; the
\* environment starts a new one only while this stays within the model's slots.
InFlight == Cardinality(ActiveRefreshes) + Cardinality(ActiveTrades) + timers

FreeRefresh(rs) ==
    CHOOSE s \in 1..MaxRefreshes :
        rs[s].pc = "idle" /\ \A t \in 1..(s - 1) : rs[t].pc # "idle"
FreeTrade(ts) ==
    CHOOSE s \in 1..MaxTrades :
        /\ ts[s].pc \in {"idle", "done"}
        /\ \A t \in 1..(s - 1) : ts[t].pc \notin {"idle", "done"}

\* refreshBalance up to its first await:
\* const { token } = get(); if (!token) return; set({ isBalanceLoading: true });
refreshBalance(st, rs) ==
    IF st.token = NoToken THEN [store |-> st, refreshes |-> rs]
    ELSE [store |-> [st EXCEPT !.isBalanceLoading = TRUE],
          refreshes |-> [rs EXCEPT ![FreeRefresh(rs)] =
                            [IdleRefresh EXCEPT !.pc = "getBalance", !.token = st.token]]]

\* initialize: set({ token, raydiumPoolAddress }); get().refreshBalance();
initialize(token, raydiumPoolAddress) ==
    /\ InFlight < MaxRefreshes
    /\ LET selected == [store EXCEPT !.token = token,
                                     !.raydiumPoolAddress = raydiumPoolAddress]
           started == refreshBalance(selected, refreshes)
       IN  /\ store' = started.store
           /\ refreshes' = started.refreshes
    /\ UNCHANGED <<balanceSource, trades, timers, pipeVars, mathVars, codecVars>>

\* The callback of setTimeout(() => get().refreshBalance(), 1000).
TimerFire ==
    /\ timers > 0
    /\ timers' = timers - 1
    /\ LET started == refreshBalance(store, refreshes)
       IN  /\ store' = started.store
           /\ refreshes' = started.refreshes
    /\ UNCHANGED <<balanceSource, trades, pipeVars, mathVars, codecVars>>

\* catch (e) { console.error(...); set({ isBalanceLoading: false }); }
RefreshFailed(s) ==
    /\ store' = [store EXCEPT !.isBalanceLoading = FALSE]
    /\ refreshes' = [refreshes EXCEPT ![s] = IdleRefresh]
    /\ UNCHANGED balanceSource

\* const solBalance = await connection.getBalance(keypair.publicKey); then the
\* call of getParsedTokenAccountsByOwner for the token this call has captured.
RefreshGotBalance(s, ok) ==
    /\ refreshes[s].pc = "getBalance"
    /\ IF ok
         THEN /\ refreshes' = [refreshes EXCEPT ![s].pc = "tokens"]
              /\ UNCHANGED <<store, balanceSource>>
         ELSE RefreshFailed(s)
    /\ UNCHANGED <<trades, timers, pipeVars, mathVars, codecVars>>

\* The ledger serves getParsedTokenAccountsByOwner, or the call is rejected:
\* the reply holds the balance of this moment, which makes every earlier read
\* of the same token an older one.
RefreshServed(s, ok) ==
    /\ refreshes[s].pc = "tokens"
    /\ IF ok
         THEN /\ refreshes' =
                    [t \in 1..MaxRefreshes |->
                        IF t = s
                          THEN [refreshes[s] EXCEPT !.pc = "reply", !.newest = TRUE]
                        ELSE IF refreshes[t].token = refreshes[s].token
                          THEN [refreshes[t] EXCEPT !.newest = FALSE]
                        ELSE refreshes[t]]
              /\ balanceSource' =
                    IF balanceSource.token = refreshes[s].token
                      THEN [balanceSource EXCEPT !.newest = FALSE]
                      ELSE balanceSource
              /\ UNCHANGED store
         ELSE RefreshFailed(s)
    /\ UNCHANGED <<trades, timers, pipeVars, mathVars, codecVars>>

\* The await resumes with the reply: tAtomic is "0" or the amount of the first
\* account, then
\* set({ solanaBalance, tokenAtomicBalance: tAtomic, tokenBalance, isBalanceLoading: false })
RefreshDeliver(s, reply) ==
    /\ refreshes[s].pc = "reply"
    /\ store' = [store EXCEPT !.tokenAtomicBalance =
                                  IF reply.accounts > 0 THEN reply.amount ELSE <<0>>,
                              !.isBalanceLoading = FALSE]
    /\ balanceSource' = [token |-> refreshes[s].token, newest |-> refreshes[s].newest]
    /\ refreshes' = [refreshes EXCEPT ![s] = IdleRefresh]
    /\ UNCHANGED <<trades, timers, pipeVars, mathVars, codecVars>>

\* The guard that lets a call through whatever isTrading says.
ExecuteGuard_TokenOnly(token, isTrading) == token # NoToken

\* if (!token || isTrading) return;
ExecuteGuard(token, isTrading) == token # NoToken /\ ~isTrading

\* executeTrade up to its first await: the guard, set({ isTrading: true }) and
\* the call of createSwapTransaction.
executeTrade(direction, amountOrPercent) ==
    /\ IF ExecuteGuard(store.token, store.isTrading)
         THEN /\ InFlight < MaxRefreshes
              /\ Cardinality(ActiveTrades) < MaxTrades
              /\ store' = [store EXCEPT !.isTrading = TRUE]
              /\ trades' = [trades EXCEPT ![FreeTrade(trades)] =
                               [IdleTrade EXCEPT
                                   !.pc = "build",
                                   !.request = SwapRequestOf(direction, amountOrPercent,
                                                             store)]]
         ELSE /\ trades' = [s \in 1..MaxTrades |->
                               IF s \in ActiveTrades
                                 THEN [trades[s] EXCEPT !.turnedAway = TRUE]
                                 ELSE trades[s]]
              /\ UNCHANGED store
    /\ UNCHANGED <<balanceSource, refreshes, timers, pipeVars, mathVars, codecVars>>

\* The finally clause left out.
Finally_KeepTrading(st) == st

\* finally { set({ isTrading: false }); }
Finally(st) == [st EXCEPT !.isTrading = FALSE]

\* catch (error) { toast.error(...) } finally { ... }: the call ends in an error.
TradeEnded(s, step, result) ==
    /\ trades' = [trades EXCEPT ![s] =
                      [IdleTrade EXCEPT !.pc = "done",
                                        !.steps = Append(trades[s].steps, step),
                                        !.result = result]]
    /\ store' = Finally(store)

\* await createSwapTransaction(...) settles; signTransaction(keypair, transaction)
\* runs at once, and sendTransaction is called with the signed transaction.
TradeBuilt(s, built, signed) ==
    /\ trades[s].pc = "build"
    /\ IF ~built THEN TradeEnded(s, "buildFailed", "error")
       ELSE IF ~signed
         THEN /\ trades' = [trades EXCEPT ![s] =
                               [IdleTrade EXCEPT !.pc = "done",
                                                 !.steps = <<"built", "signFailed">>,
                                                 !.result = "error"]]
              /\ store' = Finally(store)
       ELSE /\ trades' = [trades EXCEPT ![s].pc = "send",
                                        ![s].request = NoSwapRequest,
                                        ![s].steps = <<"built", "signed">>]
            /\ UNCHANGED store
    /\ UNCHANGED <<balanceSource, refreshes, timers, pipeVars, mathVars, codecVars>>

\* await connection.sendTransaction(transaction) settles; confirmTransaction is
\* called and awaits connection.getLatestBlockhash().
TradeSent(s, ok) ==
    /\ trades[s].pc = "send"
    /\ IF ok
         THEN /\ trades' = [trades EXCEPT ![s].pc = "blockhash",
                                          ![s].steps = Append(@, "sent")]
              /\ UNCHANGED store
         ELSE TradeEnded(s, "sendFailed", "error")
    /\ UNCHANGED <<balanceSource, refreshes, timers, pipeVars, mathVars, codecVars>>

\* await connection.getLatestBlockhash() settles; connection.confirmTransaction
\* is called and awaited.
TradeBlockhash(s, ok) ==
    /\ trades[s].pc = "blockhash"
    /\ IF ok
         THEN /\ trades' = [trades EXCEPT ![s].pc = "confirm"]
              /\ UNCHANGED store
         ELSE TradeEnded(s, "confirmFailed", "error")
    /\ UNCHANGED <<balanceSource, refreshes, timers, pipeVars, mathVars, codecVars>>

ConfirmReplies == {"reject", "err", "confirmed"}

\* A confirmation taken for a success whatever it carries.
ConfirmResult_IgnoreErr(reply) == IF reply = "reject" THEN "error" ELSE "success"

\* if (confirmation.value.err) throw new Error("Trade failed"); toast.success(...)
ConfirmResult(reply) == IF reply = "confirmed" THEN "success" ELSE "error"

\* await connection.confirmTransaction(...) settles: the check of
\* confirmation.value.err, the toast, the refresh timer and the finally clause.
TradeConfirmed(s, reply) ==
    /\ trades[s].pc = "confirm"
    /\ TradeEnded(s, CASE reply = "reject" -> "confirmFailed"
                       [] reply = "err" -> "confirmedWithError"
                       [] OTHER -> "confirmed",
                  ConfirmResult(reply))
    /\ timers' = IF ConfirmResult(reply) = "success" THEN timers + 1 ELSE timers
    /\ UNCHANGED <<balanceSource, refreshes, pipeVars, mathVars, codecVars>>

----------------------------------------------------------------------------
(* Specifications *)

Directions == {"buy", "sell"}

Init ==
    /\ pc = "idle"
    /\ req = NoReq
    /\ chk = NoChk
    /\ bpool = NoPool
    /\ ipool = NoPool
    /\ rsv = NoRsv
    /\ instructions = <<>>
    /\ ix = NoIx
    /\ calls = NoCalls
    /\ outcome = Pending
    /\ ledgerReads = <<>>
    /\ tx = NoTx
    /\ MathIdle
    /\ CodecIdle
    /\ StoreIdle

Next ==
    \/ \E d \in Directions, a \in Amounts, p \in PoolAddresses : HookStart(d, a, p)
    \/ \E read \in PoolReads : HookCheckDone(read)
    \/ \E d \in Directions, a \in Amounts, p \in PoolAddresses : LibStart(d, a, p)
    \/ \E m \in {NATIVE_MINT, TOKEN_MINT}, a \in Amounts, mn \in MinAmounts :
          InstrStart(m, a, mn)
    \/ \E read \in PoolReads : BuilderPoolRead(read)
    \/ \E read \in AcctReads : BuilderInAcctRead(read)
    \/ \E read \in AcctReads : BuilderOutAcctRead(read)
    \/ \E read \in PoolReads : InstrPoolRead(read)
    \/ \E read \in VaultReads : InstrVault0Read(read)
    \/ \E read \in VaultReads : InstrVault1Read(read)
    \/ \E fetched \in BOOLEAN : BuilderBlockhash(fetched)
    \/ \E reply \in OrderReplies : AggDone(reply)
    \/ Reset

Spec == Init /\ [][Next]_vars

\* The swap math alone: the arguments are drawn, then the function is applied.
InitMath ==
    /\ pc = "idle"
    /\ req = NoReq
    /\ chk = NoChk
    /\ bpool = NoPool
    /\ ipool = NoPool
    /\ rsv = NoRsv
    /\ instructions = <<>>
    /\ ix = NoIx
    /\ calls = NoCalls
    /\ outcome = Pending
    /\ ledgerReads = <<>>
    /\ tx = NoTx
    /\ MathInit
    /\ CodecIdle
    /\ StoreIdle

NextMath == MathCompute

SpecMath == InitMath /\ [][NextMath]_vars

\* The instruction data alone: an amount and a minimum are drawn as decimal
\* numerals, then the 24 bytes are written.
LargeValues ==
    {toString(255), toString(256), toString(65535), toString(65536),
     toString(1000000000),
     <<4, 2, 9, 4, 9, 6, 7, 2, 9, 5>>,
     <<4, 2, 9, 4, 9, 6, 7, 2, 9, 6>>,
     <<7, 2, 6, 2, 3, 8, 5, 9, 7, 9, 0, 3, 8, 2, 8, 5, 6>>,
     <<9, 2, 2, 3, 3, 7, 2, 0, 3, 6, 8, 5, 4, 7, 7, 5, 8, 0, 8>>,
     <<1, 8, 4, 4, 6, 7, 4, 4, 0, 7, 3, 7, 0, 9, 5, 5, 1, 6, 1, 5>>,
     <<1, 8, 4, 4, 6, 7, 4, 4, 0, 7, 3, 7, 0, 9, 5, 5, 1, 6, 1, 6>>}

PayloadValues == {toString(n) : n \in 0..MaxPayloadSmall} \cup LargeValues

PipelineIdle ==
    /\ pc = "idle"
    /\ req = NoReq
    /\ chk = NoChk
    /\ bpool = NoPool
    /\ ipool = NoPool
    /\ rsv = NoRsv
    /\ instructions = <<>>
    /\ ix = NoIx
    /\ calls = NoCalls
    /\ outcome = Pending
    /\ ledgerReads = <<>>
    /\ tx = NoTx

InitPayload ==
    /\ PipelineIdle
    /\ MathIdle
    /\ cpc = "input"
    /\ cin \in [amountIn : PayloadValues, minAmountOut : PayloadValues, data : {<<>>}]
    /\ cout = NotComputed
    /\ StoreIdle

PayloadEncode ==
    /\ cpc = "input"
    /\ cpc' = "computed"
    /\ cout' = SwapData(cin.amountIn, cin.minAmountOut)
    /\ UNCHANGED <<cin, pipeVars, mathVars, storeVars>>

NextPayload == PayloadEncode

SpecPayload == InitPayload /\ [][NextPayload]_vars

\* The pool account codec alone: the data of an existing account owned by the
\* AMM program is drawn, whole or cut short, then decoded.
KeyBytes(k) == [i \in 1..PUBLIC_KEY_LENGTH |-> (k * 19 + i) % 256]

RECURSIVE KeysFrom(_, _)
KeysFrom(k, n) == IF n = 0 THEN <<>> ELSE KeyBytes(k) \o KeysFrom(k + 1, n - 1)

\* An account's bytes: 8 leading bytes, ten different keys, trailing bytes.
FullPoolData(leading, shift) ==
    LET head == [i \in 1..DISCRIMINATOR_LEN |-> leading] \o KeysFrom(1 + shift, 10)
    IN  head \o [i \in 1..(MaxDataLen - Len(head)) |-> (7 * i) % 256]

PoolDatas ==
    {SubSeq(FullPoolData(leading, shift), 1, len) :
        leading \in {0, 247}, shift \in 1..MaxKeyShift, len \in 0..MaxDataLen}

InitPoolData ==
    /\ PipelineIdle
    /\ MathIdle
    /\ cpc = "input"
    /\ cin \in [amountIn : {<<0>>}, minAmountOut : {<<0>>}, data : PoolDatas]
    /\ cout = NotComputed
    /\ StoreIdle

PoolDecode ==
    /\ cpc = "input"
    /\ cpc' = "computed"
    /\ cout' = decodePoolState(cin.data)
    /\ UNCHANGED <<cin, pipeVars, mathVars, storeVars>>

NextPoolData == PoolDecode

SpecPoolData == InitPoolData /\ [][NextPoolData]_vars

\* The trading store alone: tokens are selected, balances refreshed and trades
\* executed while every awaited call settles in its own step.
InitStore ==
    /\ PipelineIdle
    /\ MathIdle
    /\ CodecIdle
    /\ StoreIdle

NextStore ==
    \/ \E token \in Tokens : initialize(token, PoolAddressOf(token))
    \/ TimerFire
    \/ \E s \in 1..MaxRefreshes, ok \in BOOLEAN : RefreshGotBalance(s, ok)
    \/ \E s \in 1..MaxRefreshes, ok \in BOOLEAN : RefreshServed(s, ok)
    \/ \E s \in 1..MaxRefreshes, reply \in TokenAccountReplies : RefreshDeliver(s, reply)
    \/ \E d \in Directions : \E v \in TradeValues(d) : executeTrade(d, v)
    \/ \E s \in 1..MaxTrades, built \in BOOLEAN, signed \in BOOLEAN : TradeBuilt(s, built, signed)
    \/ \E s \in 1..MaxTrades, ok \in BOOLEAN : TradeSent(s, ok)
    \/ \E s \in 1..MaxTrades, ok \in BOOLEAN : TradeBlockhash(s, ok)
    \/ \E s \in 1..MaxTrades, reply \in ConfirmReplies : TradeConfirmed(s, reply)

SpecStore == InitStore /\ [][NextStore]_vars

\* Every awaited call settles: each refresh and each trade in flight takes its
\* next step; the calls of the environment are under no obligation.
RefreshStep(s) ==
    \/ \E ok \in BOOLEAN : RefreshGotBalance(s, ok)
    \/ \E ok \in BOOLEAN : RefreshServed(s, ok)
    \/ \E reply \in TokenAccountReplies : RefreshDeliver(s, reply)
TradeStep(s) ==
    \/ \E built \in BOOLEAN, signed \in BOOLEAN : TradeBuilt(s, built, signed)
    \/ \E ok \in BOOLEAN : TradeSent(s, ok)
    \/ \E ok \in BOOLEAN : TradeBlockhash(s, ok)
    \/ \E reply \in ConfirmReplies : TradeConfirmed(s, reply)

SpecStoreLive ==
    /\ InitStore
    /\ [][NextStore]_vars
    /\ \A s \in 1..MaxRefreshes : WF_vars(RefreshStep(s))
    /\ \A s \in 1..MaxTrades : WF_vars(TradeStep(s))

----------------------------------------------------------------------------
(* Properties *)

BuildErrors ==
    {"Invalid public key input", "failed to get info about account",
     "Pool account not found", "Pool is not a CPMM pool",
     "Token0 Vault not found", "Token1 Vault not found",
     "Assertion failed", "failed to get recent blockhash"}

\* C1: once the qualification check has returned true for the request's pool,
\* the aggregator's getOrder is never called in that request, and the request
\* ends either with the direct-swap transaction or with the error of the build
\* step that failed, raised to the caller.
C1_NoFallbackOnceQualified ==
    (chk.ran /\ chk.result) =>
        /\ ~calls.getOrder
        /\ pc # "agg"
        /\ calls.builder
        /\ pc = "done" =>
              \/ outcome.kind = "tx" /\ outcome.via = "direct" /\ ix.made
              \/ outcome.kind = "error" /\ outcome.error \in BuildErrors

\* A qualified request whose build failed at the checkpoint fetch, the last step.
C1_Witness ==
    /\ chk.ran /\ chk.result
    /\ pc = "done"
    /\ outcome.kind = "error"
    /\ outcome.error = "failed to get recent blockhash"

\* C2: the direct-swap builder is invoked only after the qualification check of
\* the request has completed and returned true, on every entry point.
C2_BuilderOnlyAfterCheck ==
    (calls.builder /\ req.atomicAmount > 0) => (chk.ran /\ chk.result)

\* The pool of the request is not qualified: no address was given, the check
\* returned false, or the builder found the account absent or owned by another
\* program.
Unqualified ==
    \/ ~Truthy(req.poolAddress)
    \/ chk.ran /\ ~chk.result
    \/ outcome.error \in {"Pool account not found", "Pool is not a CPMM pool"}

\* C3: a request whose pool is not qualified is handed to the aggregator's
\* getOrder with the request's input mint, output mint, amount and signer, and
\* does not fail with a direct-swap error.
C3_UnqualifiedGoesToAggregator ==
    (req.entry \in {"hook", "lib"} /\ req.atomicAmount > 0 /\ pc = "done" /\ Unqualified) =>
        /\ calls.getOrder
        /\ calls.orderArgs = [inputMint |-> InputMint(req),
                              outputMint |-> OutputMintOfRequest(req),
                              amount |-> req.atomicAmount, signer |-> SIGNER]
        /\ ~(outcome.kind = "error" /\ outcome.error \in BuildErrors)

\* C4: checkRaydiumCPMMPool returns true exactly when the pool address is
\* present and the ledger read returned an existing account owned by the AMM
\* program; an absent address is answered without a ledger read.
C4_CheckTrueIffOwnedByAmm ==
    chk.ran =>
        /\ chk.result <=> (/\ Truthy(req.poolAddress)
                           /\ chk.read.status = "ok"
                           /\ chk.read.owner = CPMM_PROGRAM_ID)
        /\ ~Truthy(req.poolAddress) => chk.read = NotRead

\* The check returned true and the request entered the builder.
C4_Witness ==
    /\ chk.ran /\ chk.result
    /\ chk.read.owner = CPMM_PROGRAM_ID
    /\ pc = "b_pool"

\* C5: checkRaydiumCPMMPool never raises: a failed owner read or an address
\* that cannot be parsed makes it return false, and the request goes on to
\* the aggregator.
C5_CheckNeverRaises ==
    chk.ran =>
        /\ ~chk.threw
        /\ (chk.read.status = "fail" \/ req.poolAddress = BadAddr) =>
              (~chk.result /\ calls.getOrder /\ ~calls.builder)
        /\ calls.builder \/ calls.getOrder

\* The owner read failed and the request was handed to the aggregator.
C5_Witness ==
    /\ chk.ran
    /\ chk.read.status = "fail"
    /\ ~chk.result
    /\ pc = "agg"

\* The exact numerator and denominator of the quotient computed for amountIn.
ExactNumerator(amountIn, reserveOut) == reserveOut * amountIn * FEE_NUMERATOR
ExactDenominator(amountIn, reserveIn) ==
    reserveIn * FEE_DENOMINATOR + amountIn * FEE_NUMERATOR

\* C6 (as amended): with amountInWithFee = amountIn * 9975, not divided by
\* 10000, calculateSwapResult returns
\* floor(reserveOut * amountInWithFee / (reserveIn * 10000 + amountInWithFee))
\* whenever that denominator is not zero, and fails in BN.div when it is.
C6_SwapResultIsFloor ==
    mpc = "computed" =>
        LET n == ExactNumerator(margs.amountIn, margs.reserveOut)
            d == ExactDenominator(margs.amountIn, margs.reserveIn)
            q == mout[1].value
        IN  IF d = 0 THEN ~mout[1].ok
            ELSE mout[1].ok /\ q * d <= n /\ n < (q + 1) * d

\* A computed output that is positive and truncated.
C6_Witness ==
    /\ mpc = "computed"
    /\ mout[1].ok
    /\ mout[1].value > 0
    /\ ExactNumerator(margs.amountIn, margs.reserveOut)
         % ExactDenominator(margs.amountIn, margs.reserveIn) # 0

\* C6 as stated: the result is
\* floor(reserveOut * amountInWithFee / (reserveIn * 10000 + amountInWithFee))
\* with amountInWithFee = amountIn * 9975 / 10000 in integer arithmetic.
C6_AsStated ==
    mpc = "computed" =>
        LET amountInWithFee == (margs.amountIn * FEE_NUMERATOR) \div FEE_DENOMINATOR
            d == margs.reserveIn * FEE_DENOMINATOR + amountInWithFee
        IN  d # 0 =>
              /\ mout[1].ok
              /\ mout[1].value = (margs.reserveOut * amountInWithFee) \div d

\* C7: the swap output computation fails with IlliquidPool whenever
\* reserveIn = 0 or reserveOut = 0, and returns no number then (stated for the
\* amounts a swap request carries, amountIn > 0).
C7_ZeroLiquidityGuard ==
    (/\ mpc = "computed"
     /\ margs.amountIn > 0
     /\ margs.reserveIn = 0 \/ margs.reserveOut = 0) =>
        (~mout[1].ok /\ mout[1].error = "IlliquidPool")

\* C8: whenever calculateSwapResult returns a value, it is strictly less than
\* reserveOut (stated for the amounts a swap request carries, amountIn > 0).
C8_ConservationBound ==
    (mpc = "computed" /\ margs.amountIn > 0 /\ mout[1].ok) =>
        mout[1].value < margs.reserveOut

\* C9: for reserveIn > 0, reserveOut > 0 and 0 < amountIn < amountIn2 the
\* output for amountIn is at most the output for amountIn2, and the two are
\* equal only where truncation ties them (one of the two quotients is inexact).
C9_FeeMonotonicity ==
    (/\ mpc = "computed"
     /\ margs.reserveIn > 0 /\ margs.reserveOut > 0
     /\ 0 < margs.amountIn /\ margs.amountIn < margs.amountIn2) =>
        /\ mout[1].ok /\ mout[2].ok
        /\ mout[1].value <= mout[2].value
        /\ mout[1].value = mout[2].value =>
              \/ ExactNumerator(margs.amountIn, margs.reserveOut)
                   % ExactDenominator(margs.amountIn, margs.reserveIn) # 0
              \/ ExactNumerator(margs.amountIn2, margs.reserveOut)
                   % ExactDenominator(margs.amountIn2, margs.reserveIn) # 0

\* Two inputs on a liquid pool whose outputs differ.
C9_Witness ==
    /\ mpc = "computed"
    /\ margs.reserveIn > 0 /\ margs.reserveOut > 0
    /\ 0 < margs.amountIn /\ margs.amountIn < margs.amountIn2
    /\ 0 < mout[1].value /\ mout[1].value < mout[2].value

\* The input mint is one of the two mints of the pool the instruction was built from.
InputOnPool == InputMint(req) \in {ipool.token0Mint, ipool.token1Mint}
InputSideReserve ==
    IF InputMint(req) = ipool.token0Mint THEN rsv.token0Amount ELSE rsv.token1Amount
OutputSideReserve ==
    IF InputMint(req) = ipool.token0Mint THEN rsv.token1Amount ELSE rsv.token0Amount

\* C10: in every swap instruction produced, a minimum supplied by the caller
\* is written unchanged; with no minimum supplied the written minimum is
\* floor(calculateSwapResult(amountIn, reserveIn, reserveOut) * 99 / 100), the
\* reserves being the balances read from the vaults of the input and output side.
C10_DefaultSlippage ==
    ix.made =>
        /\ ix.amountIn = req.atomicAmount
        /\ req.minAmountOut.some => ix.minAmountOut = req.minAmountOut.value
        /\ (~req.minAmountOut.some /\ InputOnPool) =>
              LET est == calculateSwapResult(req.atomicAmount, InputSideReserve,
                                             OutputSideReserve)
              IN  /\ est.ok
                  /\ ix.minAmountOut * SLIPPAGE_DENOMINATOR <= est.value * SLIPPAGE_NUMERATOR
                  /\ est.value * SLIPPAGE_NUMERATOR
                       < (ix.minAmountOut + 1) * SLIPPAGE_DENOMINATOR

\* An instruction built with the default minimum, which is positive and below
\* the estimate.
C10_Witness ==
    /\ ix.made
    /\ ~req.minAmountOut.some
    /\ InputOnPool
    /\ ix.minAmountOut > 0
    /\ ix.minAmountOut
         < calculateSwapResult(req.atomicAmount, InputSideReserve, OutputSideReserve).value

\* C11: no swap instruction is produced, and so no swap transaction is
\* returned, when the input mint equals neither token0Mint nor token1Mint of
\* the pool state the instruction builder read (stated for the amounts a swap
\* request carries, amount > 0).
C11_InvalidPoolRejected ==
    (req.atomicAmount > 0 /\ (ix.made \/ tx.built)) => InputOnPool

\* The input mint is token0 of the pool state the instruction builder read.
InputIsToken0 == InputMint(req) = ipool.token0Mint

\* C12: every swap instruction produced lists exactly 13 accounts, in this
\* order: payer, pool authority, AMM config, pool state, input token account,
\* output token account, input vault, output vault, input token program,
\* output token program, input mint, output mint, observation account; the
\* order is the same for a buy and a sell and whichever mint is token0.
C12_ThirteenAccountsInOrder ==
    ix.made =>
        LET accounts == TokenAccounts(req, bpool)
        IN  /\ Len(ix.keys) = 13
            /\ ix.keys[1].pubkey = SIGNER
            /\ ix.keys[2].pubkey = getAuthAddress
            /\ ix.keys[3].pubkey = ipool.ammConfig
            /\ ix.keys[4].pubkey = req.poolAddress
            /\ ix.keys[5].pubkey = accounts.input
            /\ ix.keys[6].pubkey = accounts.output
            /\ ix.keys[7].pubkey =
                  (IF InputIsToken0 THEN ipool.token0Vault ELSE ipool.token1Vault)
            /\ ix.keys[8].pubkey =
                  (IF InputIsToken0 THEN ipool.token1Vault ELSE ipool.token0Vault)
            /\ ix.keys[9].pubkey =
                  (IF InputIsToken0 THEN ipool.token0Program ELSE ipool.token1Program)
            /\ ix.keys[10].pubkey =
                  (IF InputIsToken0 THEN ipool.token1Program ELSE ipool.token0Program)
            /\ ix.keys[11].pubkey = InputMint(req)
            /\ ix.keys[12].pubkey =
                  (IF InputIsToken0 THEN ipool.token1Mint ELSE ipool.token0Mint)
            /\ ix.keys[13].pubkey = ipool.observationKey

\* A sell whose input mint is token1 of the pool, compiled into a transaction.
C12_Witness ==
    /\ tx.built
    /\ ix.made
    /\ req.direction = "sell"
    /\ InputMint(req) = ipool.token1Mint
    /\ Len(ix.keys) = 13

\* The positions of the accounts of the instruction with a flag set.
SignerPositions == {i \in 1..Len(ix.keys) : ix.keys[i].isSigner}
WritablePositions == {i \in 1..Len(ix.keys) : ix.keys[i].isWritable}

\* C13 (as amended): in every swap instruction produced the payer (position 1)
\* is the only signer, and the writable entries are exactly the payer, the
\* pool state, the input and output token accounts, the input and output
\* vaults and the observation account (positions 1, 4, 5, 6, 7, 8, 13); every
\* other entry is read-only.
C13_SignerAndWritableFlags ==
    ix.made =>
        /\ SignerPositions = {1}
        /\ WritablePositions = {1, 4, 5, 6, 7, 8, 13}

\* An instruction compiled into a transaction whose payer entry is a writable signer.
C13_Witness ==
    /\ tx.built
    /\ ix.made
    /\ ix.keys[1].pubkey = tx.payerKey
    /\ ix.keys[1].isSigner
    /\ ix.keys[1].isWritable

\* C13 as stated: the payer is the only signer, and the writable entries are
\* exactly the pool state, the two token accounts, the two vaults and the
\* observation account; every other entry, the payer included, is read-only.
C13_AsStated ==
    ix.made =>
        /\ SignerPositions = {1}
        /\ WritablePositions = {4, 5, 6, 7, 8, 13}

\* The minimum written when none is supplied, for the given reserves.
DefaultMinimumFor(reserveIn, reserveOut) ==
    DefaultMinAmountOut(calculateSwapResult(req.atomicAmount, reserveIn, reserveOut).value)

\* C14: in every swap instruction produced, an input mint equal to token0Mint
\* makes token0Vault and token0Program the input side, token1Vault,
\* token1Program and token1Mint the output side and (token0, token1) the
\* reserves (reserveIn, reserveOut); an input mint equal to token1Mint swaps
\* all of these roles; and the input and output vault are the two different
\* vaults of the one pool state.
C14_SideSelection ==
    ix.made =>
        /\ InputMint(req) = ipool.token0Mint =>
              /\ ix.keys[7].pubkey = ipool.token0Vault
              /\ ix.keys[8].pubkey = ipool.token1Vault
              /\ ix.keys[9].pubkey = ipool.token0Program
              /\ ix.keys[10].pubkey = ipool.token1Program
              /\ ix.keys[12].pubkey = ipool.token1Mint
              /\ ~req.minAmountOut.some =>
                    ix.minAmountOut = DefaultMinimumFor(rsv.token0Amount, rsv.token1Amount)
        /\ InputMint(req) = ipool.token1Mint =>
              /\ ix.keys[7].pubkey = ipool.token1Vault
              /\ ix.keys[8].pubkey = ipool.token0Vault
              /\ ix.keys[9].pubkey = ipool.token1Program
              /\ ix.keys[10].pubkey = ipool.token0Program
              /\ ix.keys[12].pubkey = ipool.token0Mint
              /\ ~req.minAmountOut.some =>
                    ix.minAmountOut = DefaultMinimumFor(rsv.token1Amount, rsv.token0Amount)
        /\ ix.keys[7].pubkey # ix.keys[8].pubkey
        /\ {ix.keys[7].pubkey, ix.keys[8].pubkey} = {ipool.token0Vault, ipool.token1Vault}

\* An instruction whose input mint is token1 of the pool, built with the
\* default minimum from two different vault balances.
C14_Witness ==
    /\ ix.made
    /\ InputMint(req) = ipool.token1Mint
    /\ ~req.minAmountOut.some
    /\ rsv.token0Amount # rsv.token1Amount
    /\ ix.minAmountOut > 0
    /\ ix.keys[7].pubkey = ipool.token1Vault

\* digits * factor + carry, from the digit at position i leftwards.
RECURSIVE TimesPlus(_, _, _, _)
TimesPlus(digits, factor, i, carry) ==
    IF i = 0 THEN (IF carry = 0 THEN <<>> ELSE toString(carry))
    ELSE LET cur == digits[i] * factor + carry
         IN  TimesPlus(digits, factor, i - 1, cur \div 10) \o <<cur % 10>>

\* The number whose little-endian bytes are bytes[i..], as a decimal numeral.
RECURSIVE readBigUIntLE(_, _)
readBigUIntLE(bytes, i) ==
    IF i > Len(bytes) THEN <<0>>
    ELSE LET above == readBigUIntLE(bytes, i + 1)
         IN  BigInt(TimesPlus(above, 256, Len(above), bytes[i]))

\* 2^64 - 1, and the numerals of the numbers 0 .. 2^64 - 1.
MaxU64 == <<1, 8, 4, 4, 6, 7, 4, 4, 0, 7, 3, 7, 0, 9, 5, 5, 1, 6, 1, 5>>
InU64(digits) ==
    LET d == BigInt(digits)
    IN  \/ Len(d) < Len(MaxU64)
        \/ /\ Len(d) = Len(MaxU64)
           /\ \/ d = MaxU64
              \/ \E i \in 1..Len(d) :
                    /\ d[i] < MaxU64[i]
                    /\ \A j \in 1..(i - 1) : d[j] = MaxU64[j]

\* C15: the instruction data is exactly 24 bytes: the 8 bytes 8f be 5a da c4
\* 1e 33 de, then amountIn and then minAmountOut, each as an unsigned 64-bit
\* little-endian integer; reading bytes 8..15 and 16..23 back as little-endian
\* integers returns the two values written, for values in 0 .. 2^64 - 1.
C15_PayloadLayout ==
    (cpc = "computed" /\ InU64(cin.amountIn) /\ InU64(cin.minAmountOut)) =>
        /\ cout.ok
        /\ Len(cout.value) = 24
        /\ SubSeq(cout.value, 1, 8) = <<143, 190, 90, 218, 196, 30, 51, 222>>
        /\ \A i \in 1..24 : cout.value[i] \in 0..255
        /\ readBigUIntLE(SubSeq(cout.value, 9, 16), 1) = BigInt(cin.amountIn)
        /\ readBigUIntLE(SubSeq(cout.value, 17, 24), 1) = BigInt(cin.minAmountOut)
        /\ cin.amountIn = toString(1000000000) =>
              SubSeq(cout.value, 9, 16) = <<0, 202, 154, 59, 0, 0, 0, 0>>
        /\ cin.minAmountOut = MaxU64 =>
              SubSeq(cout.value, 17, 24) = <<255, 255, 255, 255, 255, 255, 255, 255>>

\* A payload whose amount has eight different bytes (0x0102030405060708) and
\* whose minimum is 2^64 - 1.
C15_Witness ==
    /\ cpc = "computed"
    /\ cout.ok
    /\ SubSeq(cout.value, 9, 16) = <<8, 7, 6, 5, 4, 3, 2, 1>>
    /\ cin.minAmountOut = MaxU64

\* The length of a whole pool account layout: 8 bytes and ten 32-byte fields.
PoolLayoutLen == DISCRIMINATOR_LEN + 10 * PUBLIC_KEY_LENGTH

\* The ten decoded fields written back in the order of the layout.
EncodePoolFields(p) ==
    p.ammConfig \o p.poolCreator \o p.token0Vault \o p.token1Vault \o p.lpMint
    \o p.token0Mint \o p.token1Mint \o p.token0Program \o p.token1Program
    \o p.observationKey

\* C16: for account data of at least 328 bytes, getPoolState skips the first
\* 8 bytes, whatever they are, and reads ten 32-byte fields in the order
\* ammConfig, poolCreator, token0Vault, token1Vault, lpMint, token0Mint,
\* token1Mint, token0Program, token1Program, observationKey; writing the ten
\* decoded fields back in that order reproduces bytes 8..327 of the data.
C16_PoolLayoutRoundTrip ==
    (cpc = "computed" /\ Len(cin.data) >= PoolLayoutLen) =>
        /\ cout.ok
        /\ cout.value.ammConfig = SubSeq(cin.data, 9, 40)
        /\ cout.value.poolCreator = SubSeq(cin.data, 41, 72)
        /\ cout.value.token0Vault = SubSeq(cin.data, 73, 104)
        /\ cout.value.token1Vault = SubSeq(cin.data, 105, 136)
        /\ cout.value.lpMint = SubSeq(cin.data, 137, 168)
        /\ cout.value.token0Mint = SubSeq(cin.data, 169, 200)
        /\ cout.value.token1Mint = SubSeq(cin.data, 201, 232)
        /\ cout.value.token0Program = SubSeq(cin.data, 233, 264)
        /\ cout.value.token1Program = SubSeq(cin.data, 265, 296)
        /\ cout.value.observationKey = SubSeq(cin.data, 297, 328)
        /\ EncodePoolFields(cout.value) = SubSeq(cin.data, 9, 328)

\* A whole layout with bytes after it, whose first 8 bytes are all zero, decoded.
C16_Witness ==
    /\ cpc = "computed"
    /\ Len(cin.data) > PoolLayoutLen
    /\ SubSeq(cin.data, 1, 8) = <<0, 0, 0, 0, 0, 0, 0, 0>>
    /\ cout.ok
    /\ cout.value.token0Mint # cout.value.token1Mint
    /\ cout.value.token0Mint = SubSeq(cin.data, 169, 200)

\* C17: decoding the data of an account owned by the AMM program that is
\* shorter than 328 bytes fails with MalformedAccount, and no pool state is
\* returned from the truncated data.
C17_TruncatedRejected ==
    (cpc = "computed" /\ Len(cin.data) < PoolLayoutLen) =>
        (~cout.ok /\ cout.error = "MalformedAccount")

\* The positions in ledgerReads of the pool account reads made by getPoolState
\* on behalf of fn.
PoolReadsOf(fn) ==
    {i \in 1..Len(ledgerReads) :
        ledgerReads[i].fn = fn /\ ledgerReads[i].address = req.poolAddress}
GetPoolStateReads ==
    PoolReadsOf("buildRaydiumSwapTransaction") \cup PoolReadsOf("createSwapInstruction")
OwnedByAmm(e) == e.status = "ok" /\ e.owner = CPMM_PROGRAM_ID

\* C18: getPoolState fails with "Pool account not found" when the account is
\* absent and with "Pool is not a CPMM pool" when it exists under another
\* owner, and the failure ends the request; a pool state is returned only from
\* an existing account owned by the AMM program, so every swap instruction and
\* every direct-swap transaction is built from such accounts alone.
C18_PoolStateOnlyFromAmmAccount ==
    /\ \A i \in GetPoolStateReads :
          LET e == ledgerReads[i]
          IN  /\ e.status = "absent" =>
                    /\ i = Len(ledgerReads) /\ pc = "done"
                    /\ outcome.kind = "error"
                    /\ outcome.error = "Pool account not found"
              /\ (e.status = "ok" /\ e.owner # CPMM_PROGRAM_ID) =>
                    /\ i = Len(ledgerReads) /\ pc = "done"
                    /\ outcome.kind = "error"
                    /\ outcome.error = "Pool is not a CPMM pool"
    /\ bpool # NoPool =>
          \E i \in PoolReadsOf("buildRaydiumSwapTransaction") : OwnedByAmm(ledgerReads[i])
    /\ ipool # NoPool =>
          \E i \in PoolReadsOf("createSwapInstruction") : OwnedByAmm(ledgerReads[i])
    /\ (ix.made \/ tx.built) =>
          /\ ipool # NoPool
          /\ \A i \in GetPoolStateReads : OwnedByAmm(ledgerReads[i])
    /\ tx.built => bpool # NoPool

\* The assembler decoded the pool, then the instruction builder found the
\* account under another owner and the request failed.
C18_Witness ==
    /\ bpool # NoPool
    /\ ipool = NoPool
    /\ pc = "done"
    /\ outcome.error = "Pool is not a CPMM pool"
    /\ ~ix.made /\ ~tx.built

\* The positions in ledgerReads of the vault reads made by getPoolReserves.
VaultReadPositions == {i \in 1..Len(ledgerReads) : ledgerReads[i].fn = "getPoolReserves"}

\* C19: a vault balance is read only after createSwapInstruction has decoded
\* its pool state, and at a vault address of that pool state, token0Vault
\* first; a vault that is absent ends the request with "Token0 Vault not
\* found" or "Token1 Vault not found" and no swap instruction is produced;
\* an instruction is produced only after both vaults were read.
C19_VaultsReadAfterPoolState ==
    /\ \A i \in VaultReadPositions :
          LET e == ledgerReads[i]
          IN  /\ ipool # NoPool
              /\ \E j \in 1..(i - 1) :
                    /\ ledgerReads[j].fn = "createSwapInstruction"
                    /\ OwnedByAmm(ledgerReads[j])
              /\ e.address \in {ipool.token0Vault, ipool.token1Vault}
              /\ e.address = ipool.token1Vault =>
                    /\ i - 1 \in VaultReadPositions
                    /\ ledgerReads[i - 1].address = ipool.token0Vault
                    /\ ledgerReads[i - 1].status = "ok"
              /\ e.status = "absent" =>
                    /\ i = Len(ledgerReads) /\ pc = "done"
                    /\ outcome.kind = "error"
                    /\ outcome.error = (IF e.address = ipool.token0Vault
                                          THEN "Token0 Vault not found"
                                          ELSE "Token1 Vault not found")
                    /\ ~ix.made /\ ~tx.built
    /\ Cardinality(VaultReadPositions) <= 2
    /\ ix.made =>
          /\ Cardinality(VaultReadPositions) = 2
          /\ \A i \in VaultReadPositions : ledgerReads[i].status = "ok"

\* The second vault of the pool state decoded by createSwapInstruction was
\* absent, in a build whose two pool reads returned different vault addresses.
C19_Witness ==
    /\ bpool # NoPool
    /\ bpool.token0Vault # ipool.token0Vault
    /\ Cardinality(VaultReadPositions) = 2
    /\ ledgerReads[Len(ledgerReads)].address = ipool.token1Vault
    /\ ledgerReads[Len(ledgerReads)].status = "absent"
    /\ outcome.error = "Token1 Vault not found"
    /\ ~ix.made

\* The kind and the token account of each instruction of a list, in order.
Shape(list) == [i \in 1..Len(list) |-> <<list[i].op, list[i].account>>]
Optional(present, part) == IF present THEN part ELSE <<>>

\* [create input account]? [native transfer, sync]? [create output account]?
\* swap [close output account]? [close input account]?
TransactionForm(createIn, wrap, createOut, closeOut, closeIn) ==
    Optional(createIn, <<<<"createAssociatedTokenAccount", "inputTokenAccount">>>>)
    \o Optional(wrap, <<<<"transfer", "inputTokenAccount">>,
                        <<"syncNative", "inputTokenAccount">>>>)
    \o Optional(createOut, <<<<"createAssociatedTokenAccount", "outputTokenAccount">>>>)
    \o <<<<"swap", "pool">>>>
    \o Optional(closeOut, <<<<"closeAccount", "outputTokenAccount">>>>)
    \o Optional(closeIn, <<<<"closeAccount", "inputTokenAccount">>>>)

\* C20: every transaction returned by buildRaydiumSwapTransaction has the
\* signer as fee payer and an instruction list of the form [create input
\* account]? [native transfer, sync]? [create output account]? swap [close
\* output account]? [close input account]?, in that order, with exactly one
\* swap instruction, the one createSwapInstruction returned.
C20_TransactionForm ==
    /\ tx.built =>
          /\ tx.payerKey = SIGNER
          /\ ix.made
          /\ Cardinality({i \in 1..Len(tx.instructions) :
                             tx.instructions[i].op = "swap"}) = 1
          /\ \E createIn, wrap, createOut, closeOut, closeIn \in BOOLEAN :
                Shape(tx.instructions)
                  = TransactionForm(createIn, wrap, createOut, closeOut, closeIn)
    /\ (outcome.kind = "tx" /\ outcome.via = "direct") => tx.built

\* A buy whose two token accounts were both absent: six instructions.
C20_Witness ==
    /\ tx.built
    /\ req.direction = "buy"
    /\ Shape(tx.instructions) = TransactionForm(TRUE, TRUE, TRUE, FALSE, TRUE)

\* The positions in the compiled transaction of the instructions of one kind
\* on one token account.
PositionsOf(op, account) ==
    {i \in 1..Len(tx.instructions) :
        tx.instructions[i].op = op /\ tx.instructions[i].account = account}
SwapPosition == CHOOSE i \in 1..Len(tx.instructions) : tx.instructions[i].op = "swap"

\* C21: a transaction built for a native input leg holds exactly one native
\* transfer into the input token account, followed at once by one sync of
\* that account, both before the swap instruction, and the lamports
\* transferred are the amount-in written in the swap instruction's data; a
\* transaction built for another input leg holds neither instruction.
C21_WrapBeforeSwap ==
    tx.built =>
        IF InputMint(req) = NATIVE_MINT
          THEN /\ Cardinality(PositionsOf("transfer", "inputTokenAccount")) = 1
               /\ Cardinality(PositionsOf("syncNative", "inputTokenAccount")) = 1
               /\ \A i \in PositionsOf("transfer", "inputTokenAccount") :
                     /\ i + 1 \in PositionsOf("syncNative", "inputTokenAccount")
                     /\ i + 1 < SwapPosition
                     /\ toString(tx.instructions[i].lamports)
                          = readBigUIntLE(SubSeq(ix.data, 9, 16), 1)
          ELSE \A i \in 1..Len(tx.instructions) :
                  tx.instructions[i].op \notin {"transfer", "syncNative"}

\* A buy of a positive amount into an input account that already existed.
C21_Witness ==
    /\ tx.built
    /\ req.direction = "buy"
    /\ req.atomicAmount > 0
    /\ tx.instructions[1].op = "transfer"
    /\ tx.instructions[1].lamports = req.atomicAmount
    /\ tx.instructions[2].op = "syncNative"

\* How the assembler's existence read of a token account resolved, if it was made.
AccountReadStatuses(address) ==
    {ledgerReads[i].status : i \in {j \in 1..Len(ledgerReads) :
        /\ ledgerReads[j].fn = "buildRaydiumSwapTransaction"
        /\ ledgerReads[j].address = address}}

\* The positions of the instructions that use a token account; the swap uses both.
UsesOf(account) ==
    {i \in 1..Len(tx.instructions) :
        tx.instructions[i].account = account \/ tx.instructions[i].op = "swap"}

\* C22: in every transaction built, a create-account instruction for the input
\* token account is present exactly when the input leg is native and the
\* existence read reported the account absent, and one for the output token
\* account exactly when its existence read reported it absent; there is at
\* most one create for each account, and it comes before every other
\* instruction that uses the account.
C22_CreateFollowsExistenceRead ==
    tx.built =>
        LET accounts == TokenAccounts(req, bpool)
            createIn == PositionsOf("createAssociatedTokenAccount", "inputTokenAccount")
            createOut == PositionsOf("createAssociatedTokenAccount", "outputTokenAccount")
        IN  /\ createIn # {} <=>
                  /\ InputMint(req) = NATIVE_MINT
                  /\ AccountReadStatuses(accounts.input) = {"absent"}
            /\ createOut # {} <=> AccountReadStatuses(accounts.output) = {"absent"}
            /\ InputMint(req) # NATIVE_MINT => AccountReadStatuses(accounts.input) = {}
            /\ Cardinality(createIn) <= 1 /\ Cardinality(createOut) <= 1
            /\ \A i \in createIn : \A j \in UsesOf("inputTokenAccount") \ {i} : i < j
            /\ \A i \in createOut : \A j \in UsesOf("outputTokenAccount") \ {i} : i < j

\* A buy whose input account was absent and whose output account existed.
C22_Witness ==
    /\ tx.built
    /\ req.direction = "buy"
    /\ AccountReadStatuses(TokenAccounts(req, bpool).input) = {"absent"}
    /\ AccountReadStatuses(TokenAccounts(req, bpool).output) = {"ok"}
    /\ tx.instructions[1].op = "createAssociatedTokenAccount"
    /\ Len(tx.instructions) = 5

\* C23: in every transaction built, every close instruction comes after the
\* swap instruction; the output token account is closed exactly when the
\* output leg is native and the input token account exactly when the input leg
\* is native, each at most once; and every close names the signer as
\* destination and as authority.
C23_CloseAfterSwap ==
    tx.built =>
        /\ \A i \in 1..Len(tx.instructions) :
              tx.instructions[i].op = "closeAccount" =>
                  /\ i > SwapPosition
                  /\ tx.instructions[i].destination = SIGNER
                  /\ tx.instructions[i].authority = SIGNER
        /\ PositionsOf("closeAccount", "outputTokenAccount") # {}
              <=> OutputMintOfRequest(req) = NATIVE_MINT
        /\ PositionsOf("closeAccount", "inputTokenAccount") # {}
              <=> InputMint(req) = NATIVE_MINT
        /\ Cardinality(PositionsOf("closeAccount", "outputTokenAccount")) <= 1
        /\ Cardinality(PositionsOf("closeAccount", "inputTokenAccount")) <= 1

\* A sell: the native output account is closed last, the input account is not.
C23_Witness ==
    /\ tx.built
    /\ req.direction = "sell"
    /\ tx.instructions[Len(tx.instructions)].op = "closeAccount"
    /\ tx.instructions[Len(tx.instructions)].account = "outputTokenAccount"
    /\ tx.instructions[Len(tx.instructions)].destination = SIGNER
    /\ PositionsOf("closeAccount", "inputTokenAccount") = {}


\* The reads awaited inside one buildRaydiumSwapTransaction call, by position.
BuildReadPositions ==
    {j \in 1..Len(ledgerReads) : ledgerReads[j].fn # "checkRaydiumCPMMPool"}

\* The error a resolved read makes its step raise, "none" when the step goes on.
StepErrorOf(e) ==
    CASE e.address = "latestBlockhash" ->
           IF e.status = "fail" THEN "failed to get recent blockhash" ELSE "none"
      [] e.status = "fail" -> "failed to get info about account"
      [] e.fn = "getPoolReserves" /\ e.status = "absent" ->
           IF e.address = ipool.token0Vault /\ ~rsv.read0 THEN "Token0 Vault not found"
           ELSE "Token1 Vault not found"
      [] e.address = req.poolAddress /\ e.status = "absent" -> "Pool account not found"
      [] e.address = req.poolAddress /\ e.owner # CPMM_PROGRAM_ID -> "Pool is not a CPMM pool"
      [] OTHER -> "none"

\* C24: within one buildRaydiumSwapTransaction call no read step is awaited
\* twice; the first read step that fails is the last step of the call, which
\* has ended with that step's error and without a transaction; and a call that
\* ended with any error returned no transaction and fetched no blockhash
\* after the failure.
C24_NoRetryFirstFailureEnds ==
    req.entry \in {"hook", "lib"} =>
        /\ \A i, j \in BuildReadPositions :
              (/\ ledgerReads[i].fn = ledgerReads[j].fn
               /\ ledgerReads[i].address = ledgerReads[j].address) => i = j
        /\ \A j \in BuildReadPositions :
              StepErrorOf(ledgerReads[j]) # "none" =>
                  /\ j = Len(ledgerReads)
                  /\ pc = "done"
                  /\ outcome = Failure(StepErrorOf(ledgerReads[j]))
                  /\ ~tx.built
        /\ (calls.builder /\ outcome.kind = "error") =>
              /\ pc = "done"
              /\ ~tx.built
              /\ \A j \in BuildReadPositions :
                    ledgerReads[j].address = "latestBlockhash" =>
                        ledgerReads[j].status = "fail"

\* A build whose second vault read was rejected after five reads that resolved.
C24_Witness ==
    /\ req.entry = "lib"
    /\ req.direction = "buy"
    /\ Len(ledgerReads) = 6
    /\ ledgerReads[6].fn = "getPoolReserves"
    /\ ledgerReads[6].status = "fail"
    /\ outcome = Failure("failed to get info about account")
    /\ ~tx.built


\* C27: in every transaction built, whatever pool states the assembler's read
\* and the instruction builder's read returned, the input and output token
\* accounts of the swap instruction are the associated token accounts of the
\* signer derived with the token programs the instruction lists as its input
\* and output token program.
C27_TokenAccountsMatchPrograms ==
    (tx.built /\ req.atomicAmount > 0) =>
        /\ ix.keys[5].pubkey =
              getAssociatedTokenAddress(InputMint(req), SIGNER, ix.keys[9].pubkey)
        /\ ix.keys[6].pubkey =
              getAssociatedTokenAddress(OutputMintOfRequest(req), SIGNER, ix.keys[10].pubkey)


\* C25: every swap request that reaches the direct-swap builder or the
\* aggregator carries an amount greater than zero, whatever the direction,
\* the value passed and the token balance in the store.
C25_AmountPositive ==
    \A s \in 1..MaxTrades :
        trades[s].pc = "build" => trades[s].request.atomicAmount > 0

\* The positions of a trade's steps that are a submission settled either way.
Submissions(s) ==
    {i \in 1..Len(trades[s].steps) : trades[s].steps[i] \in {"sent", "sendFailed"}}

\* C26: in every executeTrade call the transaction is submitted at most once,
\* and only after the build returned a transaction and it was signed; the
\* steps come in the order build, sign, send, confirm; the call reports
\* success only after a confirmation that carries no error; and after a
\* failed build nothing is signed or sent.
C26_BuildSignSendConfirm ==
    \A s \in 1..MaxTrades :
        LET steps == trades[s].steps
        IN  /\ Cardinality(Submissions(s)) <= 1
            /\ \A i \in 1..Len(steps) :
                  /\ steps[i] \in {"built", "buildFailed"} => i = 1
                  /\ steps[i] \in {"signed", "signFailed"} => i = 2 /\ steps[1] = "built"
                  /\ steps[i] \in {"sent", "sendFailed"} => i = 3 /\ steps[2] = "signed"
                  /\ steps[i] \in {"confirmed", "confirmedWithError", "confirmFailed"} =>
                        i = 4 /\ steps[3] = "sent"
            /\ trades[s].pc = "send" => steps = <<"built", "signed">>
            /\ trades[s].pc \in {"blockhash", "confirm"} => steps = <<"built", "signed", "sent">>
            /\ trades[s].result = "success" =>
                  steps = <<"built", "signed", "sent", "confirmed">>
            /\ (Len(steps) > 0 /\ steps[1] = "buildFailed") =>
                  steps = <<"buildFailed">> /\ trades[s].result = "error"

\* A trade whose confirmation carried an error and which ended as a failure.
C26_Witness ==
    /\ trades[1].pc = "done"
    /\ trades[1].steps = <<"built", "signed", "sent", "confirmedWithError">>
    /\ trades[1].result = "error"
    /\ ~store.isTrading

\* C28: at most one executeTrade pipeline is in flight, and isTrading is true
\* while one is; a call made while isTrading is true, or while no token is
\* selected, starts no build and leaves the store, the refreshes, the trades
\* in flight and the timers as they were.
C28_OnePipelineInFlight ==
    /\ [](Cardinality(ActiveTrades) <= 1 /\ (ActiveTrades # {} => store.isTrading))
    /\ [][(/\ store.isTrading \/ store.token = NoToken
           /\ \E d \in Directions : \E v \in TradeValues(d) : executeTrade(d, v))
             => /\ UNCHANGED <<store, balanceSource, refreshes, timers>>
                /\ \A s \in 1..MaxTrades :
                      /\ trades'[s].pc = trades[s].pc
                      /\ trades'[s].request = trades[s].request
                      /\ trades'[s].steps = trades[s].steps
                      /\ trades'[s].result = trades[s].result]_vars

\* A call was ignored while a trade had sent its transaction.
C28_Witness ==
    /\ trades[1].turnedAway
    /\ store.isTrading
    /\ Cardinality(ActiveTrades) = 1
    /\ trades[1].pc = "blockhash"

\* C29: once every awaited call settles, isTrading is false again and again,
\* so it never stays true: every executeTrade call that set it ends, on
\* success, on failure and on a confirmation error alike, in a step that sets
\* it false; and every refreshBalance call is over again and again, so each
\* one that set isBalanceLoading ends, on success and on failure alike, in a
\* step that sets it false.
C29_FlagsCleared ==
    /\ []<>(~store.isTrading)
    /\ \A s \in 1..MaxRefreshes : []<>(refreshes[s].pc = "idle")
    /\ [][/\ \A s \in 1..MaxTrades :
                (trades[s].pc # "done" /\ trades'[s].pc = "done") => ~store'.isTrading
          /\ \A s \in 1..MaxRefreshes :
                (refreshes[s].pc # "idle" /\ refreshes'[s].pc = "idle") =>
                    ~store'.isBalanceLoading]_vars

\* A trade ended by a rejected submission, with isTrading false again.
C29_Witness ==
    /\ trades[1].pc = "done"
    /\ trades[1].steps = <<"built", "signed", "sendFailed">>
    /\ ~store.isTrading
    /\ ActiveRefreshes = {}
    /\ store.token # NoToken
    /\ ~store.isBalanceLoading

\* C30: whenever no refresh is in flight, a token balance stored by a refresh
\* was read for the token now selected, and no older read has replaced a
\* newer one of that token.
C30_BalanceOfSelectedToken ==
    (ActiveRefreshes = {} /\ balanceSource.token # NoToken) =>
        /\ balanceSource.token = store.token
        /\ balanceSource.newest

=============================================================================
